---- MODULE Spec2Model ----
(***************************************************************************)
(* Position lifecycle of the funding-rate arbitrage trader: the            *)
(* orchestrator's scan, the opening task (monitor_and_execute), the        *)
(* per-symbol monitor (monitor_open_position_single), the additional-buys  *)
(* thread, PositionCloser.close_position and the position ledger           *)
(* (MultiPositionManager over PositionRepository / HistoryRepository).     *)
(*                                                                         *)
(* Units: prices are integers in price units, quantities are whole    *)
(* fills, spreads are in 0.01 % and funding rates in 0.001 %, so that the  *)
(* thresholds of config.py are integers and the divisions of the code are  *)
(* exact on the inputs used.                                               *)
(***************************************************************************)
EXTENDS Integers, Sequences, FiniteSets, Bags, TLC

Cryptos == {"BTC"}

\* ---- config.py ----------------------------------------------------------
MIN_ENTRY_SPREAD_PCT == 45
MIN_FUNDING_RATE == 20
CLOSE_FR_THRESHOLD == -1
MAX_CLOSE_SPREAD_PCT == 15
LOW_FR_TRACKING_THRESHOLD == 10
MIN_FUNDING_PAYMENTS_FOR_CLOSE == 15
MAX_CONCURRENT_POSITIONS == 1
CRITICAL_ERROR_CODES == {30228, 10001, 110043}
\* ---- api/api_client.py ----
MAX_RETRIES == 3
RETRY_DELAY == 1
\* documented in the docstring of monitor_additional_buys (+0.15 %)
ADDITIONAL_BUY_SPREAD_INCREMENT == 15
MAX_ADDITIONAL_BUYS == 3

\* ---- bounds of the model -------------------------------------------------
\* max_attempts of the two loops is 1000 in the code; the model runs fewer.
MaxOpenAttempts == 1
MaxMonitorAttempts == 2
\* opening tasks launched, invocations of monitor_open_position_single,
\* rounds of the additional-buys loop
MaxOpens == 2
MaxMonitorRuns == 1
\* invocations of monitor_open_position_single when the Monitor thread is
\* looked at without the AdditionalBuys threads
MaxMonitorTaskRuns == 2
MaxBuyRounds == 1
MaxTopUpRounds == 3
\* shutdown() looks at active_threads once a second, range(30) times; the
\* model keeps a shorter wait
MaxShutdownWaits == 3
\* the rate limiter: get_rate_limiter builds RateLimiter(50, 300); the model
\* keeps the order of the two budgets on smaller numbers
max_requests_per_second == 2
max_weight_per_second == 3
\* ticks of the clock in one second, the last reading of the clock, the
\* longest deque, the longest overshoot of a sleep
TicksPerSecond == 1
MaxClock == 6
MaxRecords == 5
MaxOvershoot == 1

\* ---- Python values -------------------------------------------------------
None == <<>>
Some(v) == <<v>>
IsNone(o) == o = <<>>
Val(o) == o[1]

\* ---- exchange answers ----------------------------------------------------
\* /market/tickers fundingRate, already multiplied by 100 (percent)
TickerRates == {-2, -1, 10, 11, 20}
TickerAnswers == {None} \cup {Some(r) : r \in TickerRates}
\* /market/orderbook: best bid and ask, or no data
SpotBooks == {[bid |-> 20000, ask |-> 20000]}
FuturesBooks == {[bid |-> 20020, ask |-> 20030],
                 [bid |-> 20090, ask |-> 20100],
                 [bid |-> 20120, ask |-> 20130]}
BookAnswers(books) == {None} \cup {Some(b) : b \in books}
\* retCode of /order/create: 0 accepted, 10001 symbol-fatal, 110007 other
RetCodes == {0, 10001, 110007}

\* FundingRateFetcher.get_single_funding_rate: the rate in percent, and 0.0
\* (never None) when the ticker has no data or the request failed
get_single_funding_rate(answer) == IF IsNone(answer) THEN 0 ELSE Val(answer)

\* PriceFetcher.get_orderbook: {} when there is no data
get_orderbook(answer) == answer

\* get_coin_balance: availableToWithdraw, 0.0 when the wallet query failed
get_coin_balance(held, queryOk) == IF queryOk THEN held ELSE 0

\* (futures_bid - spot_ask) / spot_ask * 100 and (fut_ask - spot_bid) / spot_bid * 100
SpreadPct(high, low) == ((high - low) * 10000) \div low

\* BlacklistManager.should_blacklist_error
should_blacklist_error(error_code) == error_code \in CRITICAL_ERROR_CODES

VARIABLES
    positions,       \* positions table: per symbol, its rows
    history,         \* closed_positions table: per symbol, its rows
    blacklist,       \* BlacklistManager.blacklist: the in-memory cache
    blacklist_table, \* blacklist table: per symbol its row, None when absent
    clock,           \* time.time(), in ticks
    request_times,   \* RateLimiter.request_times
    weight_times,    \* RateLimiter.weight_times
    call,            \* the BybitAPIClient / balance / funding call in progress
    active_threads,  \* MultiCryptoOrchestrator.active_threads
    scan,            \* the orchestrator's main thread
    opener,          \* per symbol: the Open-<crypto> thread
    monitor,         \* per symbol: the Monitor-<crypto> thread
    buyer,           \* per symbol: the AdditionalBuys-<crypto> thread
    wallet,          \* exchange: spot coins held per symbol
    futShort,        \* exchange: size of the short futures position per symbol
    telegram,        \* whether get_telegram_integration() returns an integration
    opens,           \* opening tasks launched so far
    ledger_call,     \* the call made on the ledger taken alone, and its past
    shutdown,        \* shutdown_event and the progress of shutdown()
    ev               \* what the last step sent out: order, notification, log

\* the rate limiter and the HTTP call under way
netVars == <<clock, request_times, weight_times, call>>

\* what the trading steps of the running program leave alone
sideVars == <<netVars, ledger_call, shutdown>>

vars == <<positions, history, blacklist, blacklist_table, active_threads, scan, opener,
          monitor, buyer, wallet, futShort, telegram, opens, ev, sideVars>>

\* ---- the ledger ----------------------------------------------------------
\* database/models.py Position plus the columns of migration b241a5f8341e
\* PositionRepository.create_position builds the row: counters at zero, the
\* latch off, total_entries 1 and the averaging columns as passed (None)
NewPosition(spot_price, futures_price, spot_qty, futures_qty, spread_pct) ==
    [spot_entry_price |-> spot_price,
     futures_entry_price |-> futures_price,
     spot_qty |-> spot_qty,
     futures_qty |-> futures_qty,
     entry_spread_pct |-> spread_pct,
     funding_payments_count |-> 0,
     low_fr_count |-> 0,
     consecutive_low_fr |-> FALSE,
     total_entries |-> 1,
     average_spot_entry_price |-> None,
     average_futures_entry_price |-> None,
     last_addition_timestamp |-> None,
     last_entry_spread_pct |-> None]

\* migration b241a5f8341e on a row written before it: the averages take the
\* entry prices and last_entry_spread_pct the entry spread
Migrated(row) ==
    [row EXCEPT !.average_spot_entry_price = Some(row.spot_entry_price),
                !.average_futures_entry_price = Some(row.futures_entry_price),
                !.last_entry_spread_pct = Some(row.entry_spread_pct)]

\* Position.to_dict: the keys the dict view of a position carries
to_dict(row) ==
    [spot_entry_price |-> row.spot_entry_price,
     futures_entry_price |-> row.futures_entry_price,
     spot_qty |-> row.spot_qty,
     futures_qty |-> row.futures_qty,
     entry_spread_pct |-> row.entry_spread_pct,
     funding_payments_count |-> row.funding_payments_count,
     low_fr_count |-> row.low_fr_count,
     consecutive_low_fr |-> row.consecutive_low_fr]

\* dict.get(key, default)
Get(d, key, default) == IF key \in DOMAIN d THEN d[key] ELSE default

\* PositionRepository.has_position / get_by_crypto (query.first())
has_position(c) == Len(positions[c]) > 0
get_by_crypto(c) == positions[c][1]
\* MultiPositionManager.get_position: the dict, or None
get_position(c) == IF has_position(c) THEN Some(to_dict(get_by_crypto(c))) ELSE None
\* PositionRepository.get_open_cryptos / get_positions_count
get_open_cryptos == {c \in DOMAIN positions : has_position(c)}
RECURSIVE SumLen(_, _)
SumLen(f, S) == IF S = {} THEN 0
                ELSE LET c == CHOOSE x \in S : TRUE IN Len(f[c]) + SumLen(f, S \ {c})
get_positions_count == SumLen(positions, DOMAIN positions)
\* BaseRepository.save of a loaded row: session.merge updates the row in place
SaveRow(c, row) == [positions EXCEPT ![c] = <<row>> \o Tail(positions[c])]

\* MultiPositionManager.save_position: the new positions table. An existing
\* row is overwritten in place; otherwise create_position inserts one. dbOk
\* is whether the INSERT went through (SQLAlchemyError otherwise).
save_position(c, spot_price, futures_price, spot_qty, futures_qty, spread_pct, dbOk) ==
    IF has_position(c)
    THEN SaveRow(c, [get_by_crypto(c) EXCEPT !.spot_entry_price = spot_price,
                                             !.futures_entry_price = futures_price,
                                             !.spot_qty = spot_qty,
                                             !.futures_qty = futures_qty,
                                             !.entry_spread_pct = spread_pct])
    ELSE IF dbOk
         THEN [positions EXCEPT ![c] =
                  Append(@, NewPosition(spot_price, futures_price, spot_qty, futures_qty, spread_pct))]
         ELSE positions

\* PositionRepository.increment_funding_count on a loaded row
RepoIncrementFundingCount(row, current_fr, low_fr_threshold) ==
    IF current_fr <= low_fr_threshold
    THEN [row EXCEPT !.funding_payments_count = @ + 1, !.low_fr_count = @ + 1]
    ELSE [row EXCEPT !.funding_payments_count = @ + 1, !.low_fr_count = 0,
                     !.consecutive_low_fr = FALSE]

\* the same with the trigger compared by > (a latch one round late)
increment_funding_count_late(row, current_fr) ==
    LET r == RepoIncrementFundingCount(row, current_fr, LOW_FR_TRACKING_THRESHOLD)
    IN  IF r.low_fr_count > MIN_FUNDING_PAYMENTS_FOR_CLOSE /\ ~r.consecutive_low_fr
        THEN [r EXCEPT !.consecutive_low_fr = TRUE]
        ELSE r

\* MultiPositionManager.increment_funding_count: the repository update, then
\* activate_soft_close_mode once low_fr_count reaches the trigger
increment_funding_count(row, current_fr) ==
    LET r == RepoIncrementFundingCount(row, current_fr, LOW_FR_TRACKING_THRESHOLD)
    IN  IF r.low_fr_count >= MIN_FUNDING_PAYMENTS_FOR_CLOSE /\ ~r.consecutive_low_fr
        THEN [r EXCEPT !.consecutive_low_fr = TRUE]
        ELSE r

\* MultiPositionManager.add_to_position raises (and returns False) on a None
\* average (None * float) and on a zero total quantity (division by zero)
AddToPositionFails(row, new_spot_qty, new_futures_qty) ==
    \/ IsNone(row.average_spot_entry_price)
    \/ IsNone(row.average_futures_entry_price)
    \/ row.spot_qty + new_spot_qty = 0
    \/ row.futures_qty + new_futures_qty = 0

\* the mean of the old average and the fill price, the quantities ignored
UnweightedMean(old_avg, old_qty, new_price, new_qty) == (old_avg + new_price) \div 2

\* (old_avg * old_qty + new_price * new_qty) / (old_qty + new_qty)
AveragePrice(old_avg, old_qty, new_price, new_qty) ==
    (old_avg * old_qty + new_price * new_qty) \div (old_qty + new_qty)

\* MultiPositionManager.add_to_position on a loaded row
add_to_position(row, new_spot_price, new_futures_price, new_spot_qty, new_futures_qty, new_spread_pct) ==
    IF AddToPositionFails(row, new_spot_qty, new_futures_qty)
    THEN row
    ELSE [row EXCEPT
            !.spot_qty = @ + new_spot_qty,
            !.futures_qty = @ + new_futures_qty,
            !.average_spot_entry_price =
                Some(AveragePrice(Val(@), row.spot_qty, new_spot_price, new_spot_qty)),
            !.average_futures_entry_price =
                Some(AveragePrice(Val(@), row.futures_qty, new_futures_price, new_futures_qty)),
            !.last_entry_spread_pct = Some(new_spread_pct),
            !.total_entries = @ + 1,
            !.last_addition_timestamp = Some(1)]

\* PnLCalculator.calculate_pnl: the price components (long spot, short futures)
calculate_pnl(spot_entry, spot_exit, futures_entry, futures_exit, spot_qty, futures_qty) ==
    LET spot_pnl == (spot_exit - spot_entry) * spot_qty
        futures_pnl == (futures_entry - futures_exit) * futures_qty
    IN  [spot_pnl |-> spot_pnl, futures_pnl |-> futures_pnl, price_pnl |-> spot_pnl + futures_pnl]

\* the ClosedPosition row close_position_with_pnl hands to save_closed_position
ClosedRow(row, close_spot_price, close_futures_price) ==
    [spot_entry_price |-> row.spot_entry_price,
     futures_entry_price |-> row.futures_entry_price,
     spot_exit_price |-> close_spot_price,
     futures_exit_price |-> close_futures_price,
     spot_qty |-> row.spot_qty,
     futures_qty |-> row.futures_qty,
     entry_spread_pct |-> row.entry_spread_pct,
     close_spread_pct |-> SpreadPct(close_futures_price, close_spot_price),
     pnl |-> calculate_pnl(Val(row.average_spot_entry_price), close_spot_price,
                           Val(row.average_futures_entry_price), close_futures_price,
                           row.spot_qty, row.futures_qty),
     funding_payments_count |-> row.funding_payments_count]

\* close_position_with_pnl gives up (returns None, nothing written) when the
\* position is missing or calculate_pnl raises on a None average entry price
ArchiveAborts(c) ==
    \/ ~has_position(c)
    \/ IsNone(get_by_crypto(c).average_spot_entry_price)
    \/ IsNone(get_by_crypto(c).average_futures_entry_price)

\* HistoryRepository.save_closed_position: appends the row; on SQLAlchemyError
\* it logs and returns None, and the table is unchanged
save_closed_position(c, row, histOk) ==
    IF histOk THEN [history EXCEPT ![c] = Append(@, row)] ELSE history

\* MultiPositionManager.clear_position -> PositionRepository.delete_by_crypto:
\* deletes the first row of the symbol; False (row kept) on a database error
clear_position(c, delOk) ==
    IF delOk /\ has_position(c) THEN [positions EXCEPT ![c] = Tail(@)] ELSE positions

\* MultiPositionManager.close_position_with_pnl: steps 5 (history) and 7
\* (delete) run one after the other; the result of step 5 is not looked at
close_position_with_pnl(c, close_spot_price, close_futures_price, histOk, delOk) ==
    IF ArchiveAborts(c)
    THEN [positions |-> positions, history |-> history]
    ELSE [positions |-> clear_position(c, delOk),
          history |-> save_closed_position(c, ClosedRow(get_by_crypto(c), close_spot_price, close_futures_price), histOk)]

\* ---- what a step sends out -------------------------------------------------
\* order:   the /order/create request of the step ("none" when it sent none)
\* ok:      whether the exchange accepted it (retCode 0)
\* partial: the partial-hedge branch the step ran into ("open", "topup",
\*          "close"), with exposure the quantity of the leg left open
\* attempt: the orders of the same open attempt so far, this one included
\* round:   the data and the decision of a monitoring round, None otherwise
\* alert:   telegram.notify_critical_error(crypto, qty), None when not called
\* log:     whether logger.critical was called
\* code:    the retCode of the answer to an order of an open attempt
NoEvent ==
    [order |-> "none", crypto |-> "none", ok |-> FALSE, attempt |-> <<>>,
     partial |-> "none", exposure |-> 0, alert |-> None, log |-> FALSE, round |-> None,
     code |-> 0]
OrderEvent(kind, c, ok) == [NoEvent EXCEPT !.order = kind, !.crypto = c, !.ok = ok]
OpenOrders == {"open_futures", "open_spot"}
TopUpOrders == {"topup_futures", "topup_spot"}
CloseOrders == {"close_spot", "close_futures"}

\* ---- RateLimiter (rate_limiter.py) -------------------------------------------
\* time.time() is read in ticks; the window of 1.0 second is TicksPerSecond
\* ticks. Two readings of the clock may be equal.
ENDPOINT_WEIGHTS ==
    [e \in {"/market/tickers", "/market/orderbook", "/market/instruments-info",
             "/market/time", "/order/create", "/position/set-leverage",
             "/account/wallet-balance"} |-> 1]

\* RateLimiter.get_endpoint_weight
get_endpoint_weight(endpoint) == Get(ENDPOINT_WEIGHTS, endpoint, 1)

\* the limiter as wait_if_needed sees it: its reading of the clock and the
\* two deques
Limiter == [now |-> clock, request_times |-> request_times, weight_times |-> weight_times]

RECURSIVE PopOldRequests(_, _)
\* `while self.request_times and now - self.request_times[0] > 1.0: popleft()`
PopOldRequests(times, now) ==
    IF times # <<>> /\ now - Head(times) > TicksPerSecond
    THEN PopOldRequests(Tail(times), now)
    ELSE times

RECURSIVE PopOldWeights(_, _)
\* `while self.weight_times and now - self.weight_times[0][0] > 1.0: popleft()`
PopOldWeights(times, now) ==
    IF times # <<>> /\ now - Head(times)[1] > TicksPerSecond
    THEN PopOldWeights(Tail(times), now)
    ELSE times

\* RateLimiter._cleanup_old_records
_cleanup_old_records(L) ==
    [L EXCEPT !.request_times = PopOldRequests(@, L.now),
              !.weight_times = PopOldWeights(@, L.now)]

RECURSIVE SumWeights(_)
\* sum(w for _, w in self.weight_times)
SumWeights(times) == IF times = <<>> THEN 0 ELSE Head(times)[2] + SumWeights(Tail(times))

\* time.sleep(wait_time); now = time.time(); self._cleanup_old_records(now):
\* the sleep lasts wait_time and overshoot ticks more
SleepAndCleanup(L, wait_time, overshoot) ==
    _cleanup_old_records([L EXCEPT !.now = @ + wait_time + overshoot])

\* the check of the request budget: one `if`, one sleep for the oldest entry
WaitForRequests(L, overshoot) ==
    IF Len(L.request_times) >= max_requests_per_second
    THEN LET wait_time == TicksPerSecond - (L.now - Head(L.request_times))
         IN  IF wait_time > 0 THEN SleepAndCleanup(L, wait_time, overshoot) ELSE L
    ELSE L

\* the check of the weight budget: one `if`, one sleep for the oldest entry
WaitForWeight(L, weight, overshoot) ==
    IF SumWeights(L.weight_times) + weight > max_weight_per_second /\ L.weight_times # <<>>
    THEN LET wait_time == TicksPerSecond - (L.now - Head(L.weight_times)[1])
         IN  IF wait_time > 0 THEN SleepAndCleanup(L, wait_time, overshoot) ELSE L
    ELSE L

\* RateLimiter.wait_if_needed, all of it under self.lock: cleanup, the two
\* checks, and the record of the new call at the last reading of the clock
wait_if_needed(L, endpoint, overshoots) ==
    LET weight == get_endpoint_weight(endpoint)
        checked == WaitForWeight(WaitForRequests(_cleanup_old_records(L), overshoots[1]),
                                 weight, overshoots[2])
    IN  [checked EXCEPT !.request_times = Append(@, checked.now),
                        !.weight_times = Append(@, <<checked.now, weight>>)]

\* how much longer than asked a sleep may last, for the two sleeps of a call
SleepOvershoots == (0..MaxOvershoot) \X (0..MaxOvershoot)

\* ---- the HTTP call under way -------------------------------------------------
\* op: "none" or the function called; attempt: the iteration of its retry
\* loop; requests: the HTTP requests it has sent, each with whether
\* wait_if_needed was called for it; result: how it ended
\* wake: the reading of the clock at which its time.sleep ends
CallIdle ==
    [op |-> "none", endpoint |-> "none", attempt |-> 0, requests |-> <<>>, result |-> "none",
     wake |-> 0]

\* RateLimiter(...) as built by get_rate_limiter, no call under way
NetInit ==
    /\ clock = 0
    /\ request_times = <<>>
    /\ weight_times = <<>>
    /\ call = CallIdle

\* ---- threads ---------------------------------------------------------------
ScanIdle == [pc |-> "idle", opps |-> <<>>, open_count |-> 0]
\* no call made on the ledger yet; rounds and low_run are the funding rounds
\* applied since the position was created and the run of low ones ending them
NoLedgerCall ==
    [op |-> "none", crypto |-> "none", args |-> <<>>, result |-> FALSE,
     rounds |-> 0, low_run |-> 0]
\* shutdown_event clear, shutdown() not called
NotShutDown == [event |-> FALSE, pc |-> "off", waited |-> 0]
OpenerStart(c) ==
    [crypto |-> c, pc |-> "loop", attempts |-> 0, spot_ask |-> 0, futures_bid |-> 0,
     balance_before |-> 0, futures_qty |-> 0, sent |-> <<>>,
     funding_rate |-> 0, leverage |-> FALSE]
\* partial_close is the history of the run, not a variable of the code: a
\* close attempt of the position has ended with exactly one leg closed
MonitorOff ==
    [pc |-> "off", runs |-> 0, attempts |-> 0, funding_rate |-> 0, soft |-> FALSE,
     spot_bid |-> 0, fut_ask |-> 0, balance |-> 0, futures_qty |-> 0,
     spot_ok |-> FALSE, partial_close |-> FALSE]
MonitorStart == [MonitorOff EXCEPT !.pc = "start"]
BuyerStart ==
    [pc |-> "sleep", attempts |-> 0, spot_ask |-> 0, futures_bid |-> 0,
     balance_before |-> 0, futures_qty |-> 0]

\* a position left by an earlier run, after the migration: one fill per leg,
\* entered at the minimum spread, with the funding counters it had reached
RestoredCounters == {<<0, 0, FALSE>>, <<14, 14, FALSE>>, <<15, 15, TRUE>>}
RestoredPosition(k) ==
    [Migrated(NewPosition(20000, 20090, 1, 1, 45)) EXCEPT
        !.funding_payments_count = k[1], !.low_fr_count = k[2], !.consecutive_low_fr = k[3]]

\* the program after construction on an empty database
Init ==
    /\ positions = [c \in Cryptos |-> <<>>]
    /\ wallet = [c \in Cryptos |-> 0]
    /\ futShort = [c \in Cryptos |-> 0]
    /\ history = [c \in Cryptos |-> <<>>]
    /\ blacklist = {}
    /\ blacklist_table = [c \in Cryptos |-> None]
    /\ NetInit
    /\ active_threads = {}
    /\ scan = [ScanIdle EXCEPT !.pc = "init"]
    /\ opener = EmptyBag
    /\ monitor = [c \in Cryptos |-> MonitorOff]
    /\ buyer = [c \in Cryptos |-> EmptyBag]
    /\ telegram \in BOOLEAN
    /\ opens = 0
    /\ ledger_call = NoLedgerCall
    /\ shutdown = NotShutDown
    /\ ev = NoEvent

\* the program after construction on a database that holds a position of
\* every symbol, with both legs on the exchange
InitRestored ==
    /\ \E k \in RestoredCounters : positions = [c \in Cryptos |-> <<RestoredPosition(k)>>]
    /\ wallet = [c \in Cryptos |-> 1]
    /\ futShort = [c \in Cryptos |-> 1]
    /\ history = [c \in Cryptos |-> <<>>]
    /\ blacklist = {}
    /\ blacklist_table = [c \in Cryptos |-> None]
    /\ NetInit
    /\ active_threads = {}
    /\ scan = [ScanIdle EXCEPT !.pc = "init"]
    /\ opener = EmptyBag
    /\ monitor = [c \in Cryptos |-> MonitorOff]
    /\ buyer = [c \in Cryptos |-> EmptyBag]
    /\ telegram \in BOOLEAN
    /\ opens = 0
    /\ ledger_call = NoLedgerCall
    /\ shutdown = NotShutDown
    /\ ev = NoEvent

\* ---- MultiCryptoOrchestrator ------------------------------------------------
\* restore_monitoring: one Monitor thread per position found in the table
RestoreMonitoring ==
    /\ scan.pc = "init"
    /\ scan' = ScanIdle
    /\ active_threads' = active_threads \cup {<<"monitor", c>> : c \in get_open_cryptos}
    /\ monitor' = [c \in DOMAIN monitor |-> IF has_position(c) THEN MonitorStart ELSE monitor[c]]
    /\ ev' = NoEvent
    /\ UNCHANGED <<positions, history, blacklist, blacklist_table, opener, buyer, wallet, futShort, telegram, opens>>
    /\ UNCHANGED sideVars

\* the sequences without repetition over a set, of length at most n
RECURSIVE SeqsUpTo(_, _)
SeqsUpTo(S, n) ==
    IF n <= 0 \/ S = {} THEN {<<>>}
    ELSE {<<>>} \cup UNION {{<<x>> \o s : s \in SeqsUpTo(S \ {x}, n - 1)} : x \in S}

\* scan_opportunities up to find_top_opportunities: nothing to do at the
\* position limit; otherwise the opportunities are some of the symbols that
\* are neither blacklisted nor open, at most limit of them
ScanRead ==
    /\ scan.pc = "idle"
    /\ ~shutdown.event
    /\ LET open_positions == get_open_cryptos
           open_count == Cardinality(open_positions)
           available == (DOMAIN positions \ blacklist) \ open_positions
       IN  IF open_count >= MAX_CONCURRENT_POSITIONS
           THEN scan' = ScanIdle
           ELSE \E opps \in SeqsUpTo(available, MAX_CONCURRENT_POSITIONS - open_count) :
                   scan' = IF opps = <<>> THEN ScanIdle
                           ELSE [pc |-> "launch", opps |-> opps, open_count |-> open_count]
    /\ ev' = NoEvent
    /\ UNCHANGED <<positions, history, blacklist, blacklist_table, active_threads, opener, monitor, buyer,
                   wallet, futShort, telegram, opens>>
    /\ UNCHANGED sideVars

\* the checks without the one on active_threads
LaunchDecisionWithoutThreadCheck(c) ==
    IF c \in blacklist THEN "skip"
    ELSE IF has_position(c) THEN "skip"
    ELSE IF get_positions_count >= MAX_CONCURRENT_POSITIONS THEN "stop"
    ELSE "launch"

\* the checks scan_opportunities makes under self.lock before it starts an
\* Open thread: "skip" (continue), "stop" (break) or "launch"
LaunchDecision(c) ==
    IF c \in blacklist THEN "skip"
    ELSE IF has_position(c) THEN "skip"
    ELSE IF <<"open", c>> \in active_threads THEN "skip"
    ELSE IF get_positions_count >= MAX_CONCURRENT_POSITIONS THEN "stop"
    ELSE "launch"

\* scan_opportunities, one turn of the loop over the opportunities
ScanLaunch ==
    /\ scan.pc = "launch"
    /\ LET c == Head(scan.opps)
           rest == Tail(scan.opps)
           d == LaunchDecision(c)
       IN  /\ d = "launch" => opens < MaxOpens
           /\ scan' = IF d = "stop" \/ rest = <<>> THEN ScanIdle ELSE [scan EXCEPT !.opps = rest]
           /\ IF d = "launch"
              THEN /\ active_threads' = active_threads \cup {<<"open", c>>}
                   /\ opener' = opener (+) SetToBag({OpenerStart(c)})
                   /\ opens' = opens + 1
              ELSE UNCHANGED <<active_threads, opener, opens>>
    /\ ev' = NoEvent
    /\ UNCHANGED <<positions, history, blacklist, blacklist_table, monitor, buyer, wallet, futShort, telegram>>
    /\ UNCHANGED sideVars

\* ---- OpportunityMonitor.monitor_and_execute (thread Open-<crypto>) -----------
Replace(bag, old, new) == (bag (-) SetToBag({old})) (+) SetToBag({new})
Remove(bag, old) == bag (-) SetToBag({old})

\* try_open_position, finally: the thread ends and leaves active_threads
OpenerEnds(o) ==
    /\ opener' = Remove(opener, o)
    /\ active_threads' = active_threads \ {<<"open", o.crypto>>}

\* the entry condition without the check on the funding rate
EntryConditionSpreadOnly(funding_rate, spread_pct) == spread_pct >= MIN_ENTRY_SPREAD_PCT

\* the entry condition of one iteration on the fetched data
EntryCondition(funding_rate, spread_pct) ==
    funding_rate >= MIN_FUNDING_RATE /\ spread_pct >= MIN_ENTRY_SPREAD_PCT

\* whether an iteration goes on after its has_position check
OpenerMayProceed(c) == ~has_position(c)

\* one iteration of the while loop, up to the wallet query before the orders:
\* the blacklist check on entry, the has_position check, orderbooks, funding
\* rate, the entry condition, the leverage and balance_before
OpenIterate(o) ==
    /\ o \in BagToSet(opener) /\ o.pc = "loop"
    /\ LET c == o.crypto IN
       \/ /\ \/ o.attempts = 0 /\ c \in blacklist
             \/ o.attempts >= MaxOpenAttempts
             \/ ~OpenerMayProceed(c)
          /\ OpenerEnds(o)
       \/ /\ ~(o.attempts = 0 /\ c \in blacklist)
          /\ o.attempts < MaxOpenAttempts
          /\ OpenerMayProceed(c)
          /\ \E sa \in BookAnswers(SpotBooks), fa \in BookAnswers(FuturesBooks),
                ta \in TickerAnswers, leverageOk \in BOOLEAN, balanceOk \in BOOLEAN :
               LET spot_orderbook == get_orderbook(sa)
                   futures_orderbook == get_orderbook(fa)
                   funding_rate == get_single_funding_rate(ta)
                   waiting == [o EXCEPT !.attempts = @ + 1]
               IN  IF IsNone(spot_orderbook) \/ IsNone(futures_orderbook)
                   THEN opener' = Replace(opener, o, waiting) /\ UNCHANGED active_threads
                   ELSE LET spot_ask == Val(spot_orderbook).ask
                            futures_bid == Val(futures_orderbook).bid
                            spread_pct == SpreadPct(futures_bid, spot_ask)
                        IN  IF ~EntryCondition(funding_rate, spread_pct)
                            THEN opener' = Replace(opener, o, waiting) /\ UNCHANGED active_threads
                            ELSE IF ~leverageOk
                            THEN OpenerEnds(o)
                            ELSE /\ opener' = Replace(opener, o,
                                        [waiting EXCEPT !.pc = "futures", !.spot_ask = spot_ask,
                                            !.futures_bid = futures_bid,
                                            !.funding_rate = funding_rate,
                                            !.leverage = leverageOk,
                                            !.balance_before = get_coin_balance(wallet[c], balanceOk)])
                                 /\ UNCHANGED active_threads
    /\ ev' = NoEvent
    /\ UNCHANGED <<positions, history, blacklist, blacklist_table, scan, monitor, buyer, wallet, futShort, telegram, opens>>
    /\ UNCHANGED sideVars

\* ---- the blacklist ---------------------------------------------------------
\* the reasons the program stores: f"Futures error: {error_str}",
\* f"Spot error after futures opened: {error_str}", f"Manual: {reason}"
FuturesErrorReason == "Futures error"
SpotErrorReason == "Spot error after futures opened"
ManualReason == "Manual"
\* the reasons that contain "Spot error"
MentionsSpotError(reason) == reason = SpotErrorReason

\* BlacklistRepository.is_blacklisted
RepoIsBlacklisted(table, c) == ~IsNone(table[c])

\* BlacklistRepository.add_to_blacklist: False when the row exists or the
\* write raises SQLAlchemyError
RepoAddToBlacklist(table, c, reason, error_code, dbOk) ==
    LET success == ~RepoIsBlacklisted(table, c) /\ dbOk
    IN  [success |-> success,
         table |-> IF success
                   THEN [table EXCEPT ![c] = Some([reason |-> reason, error_code |-> error_code])]
                   ELSE table]

\* BlacklistRepository.remove_from_blacklist: False when the row is absent
\* or the delete raises
RepoRemoveFromBlacklist(table, c, dbOk) ==
    LET success == RepoIsBlacklisted(table, c) /\ dbOk
    IN  [success |-> success,
         table |-> IF success THEN [table EXCEPT ![c] = None] ELSE table]

\* BlacklistManager.add_to_blacklist: the cache first, then the repository,
\* and the cache is updated only when the repository reported success
add_to_blacklist(c, reason, error_code, dbOk) ==
    IF c \in blacklist
    THEN [success |-> FALSE, cache |-> blacklist, table |-> blacklist_table]
    ELSE LET added == RepoAddToBlacklist(blacklist_table, c, reason, error_code, dbOk)
         IN  [success |-> added.success,
              cache |-> IF added.success THEN blacklist \cup {c} ELSE blacklist,
              table |-> added.table]

\* BlacklistManager.remove_from_blacklist
remove_from_blacklist(c, dbOk) ==
    IF c \notin blacklist
    THEN [success |-> FALSE, cache |-> blacklist, table |-> blacklist_table]
    ELSE LET removed == RepoRemoveFromBlacklist(blacklist_table, c, dbOk)
         IN  [success |-> removed.success,
              cache |-> IF removed.success THEN blacklist \ {c} ELSE blacklist,
              table |-> removed.table]

\* the reason monitor_and_execute gives for the leg whose order failed
LegReason(order) == IF order = "open_futures" THEN FuturesErrorReason ELSE SpotErrorReason

\* the blacklist after a failed order of an open attempt: the code is parsed
\* out of the error string and, when should_blacklist_error accepts it, the
\* symbol is handed to add_to_blacklist, whose result is not looked at
BlacklistAfter(c, order, retCode, dbOk) ==
    IF should_blacklist_error(retCode)
    THEN add_to_blacklist(c, LegReason(order), retCode, dbOk)
    ELSE [success |-> FALSE, cache |-> blacklist, table |-> blacklist_table]

\* OrderExecutor.place_futures_order / place_spot_order: the result dict of
\* an order the exchange answered with this retCode
OrderResult(retCode) == [success |-> retCode = 0, qty |-> IF retCode = 0 THEN 1 ELSE 0]

\* an attempt that went on to the spot order whatever the futures result
SpotOrderFollowsAnyResult(futures_result) == TRUE

\* `if not futures_result["success"]: ... return False`: whether the attempt
\* goes on to the spot order
SpotOrderFollows(futures_result) == futures_result.success

\* step 1/2: place_futures_order(crypto, "Sell", ...); on failure the attempt
\* is given up
OpenFutures(o) ==
    /\ o \in BagToSet(opener) /\ o.pc = "futures"
    /\ \E retCode \in RetCodes :
        LET c == o.crypto
            futures_result == OrderResult(retCode)
            sent == Append(o.sent, [order |-> "open_futures", ok |-> futures_result.success])
        IN  /\ ev' = [OrderEvent("open_futures", c, futures_result.success) EXCEPT
                            !.attempt = sent, !.code = retCode]
            /\ futShort' = [futShort EXCEPT ![c] = @ + futures_result.qty]
            /\ IF SpotOrderFollows(futures_result)
               THEN /\ opener' = Replace(opener, o,
                           [o EXCEPT !.pc = "spot", !.futures_qty = futures_result.qty, !.sent = sent])
                    /\ UNCHANGED <<blacklist, blacklist_table, active_threads>>
               ELSE /\ \E dbOk \in BOOLEAN :
                           LET after == BlacklistAfter(c, "open_futures", retCode, dbOk)
                           IN  blacklist' = after.cache /\ blacklist_table' = after.table
                    /\ OpenerEnds(o)
    /\ UNCHANGED <<positions, history, scan, monitor, buyer, wallet, telegram, opens>>
    /\ UNCHANGED sideVars

\* the critical branch "futures opened, spot failed": logger.critical, and
\* notify_critical_error(crypto, qty) when there is a telegram integration
SpotFailedEvent(e, qty) ==
    [e EXCEPT !.partial = "open", !.exposure = qty, !.log = TRUE,
              !.alert = IF telegram THEN Some([crypto |-> e.crypto, qty |-> qty]) ELSE None]

\* an attempt that went on to save_position whatever the spot result
PositionIsSavedAnyResult(spot_result) == TRUE

\* `if spot_result["success"]:` whether the attempt goes on to save_position
\* and returns True
PositionIsSaved(spot_result) == spot_result.success

\* step 2/2: place_spot_order(crypto, "Buy", ...); on failure the critical
\* branch runs and the attempt returns False
OpenSpot(o) ==
    /\ o \in BagToSet(opener) /\ o.pc = "spot"
    /\ \E retCode \in RetCodes :
        LET c == o.crypto
            spot_result == OrderResult(retCode)
            sent == Append(o.sent, [order |-> "open_spot", ok |-> spot_result.success])
            e == [OrderEvent("open_spot", c, spot_result.success) EXCEPT
                      !.attempt = sent, !.code = retCode]
        IN  /\ wallet' = [wallet EXCEPT ![c] = @ + spot_result.qty]
            /\ IF PositionIsSaved(spot_result)
               THEN /\ ev' = e
                    /\ opener' = Replace(opener, o, [o EXCEPT !.pc = "save", !.sent = sent])
                    /\ UNCHANGED <<blacklist, blacklist_table, active_threads>>
               ELSE /\ ev' = SpotFailedEvent(e, o.futures_qty)
                    /\ \E dbOk \in BOOLEAN :
                           LET after == BlacklistAfter(c, "open_spot", retCode, dbOk)
                           IN  blacklist' = after.cache /\ blacklist_table' = after.table
                    /\ OpenerEnds(o)
    /\ UNCHANGED <<positions, history, scan, monitor, buyer, futShort, telegram, opens>>
    /\ UNCHANGED sideVars

\* after both orders: balance_after, save_position, return True; then
\* try_open_position starts the Monitor thread and the Open thread ends
OpenSave(o) ==
    /\ o \in BagToSet(opener) /\ o.pc = "save"
    /\ \E balanceOk \in BOOLEAN, dbOk \in BOOLEAN :
        LET c == o.crypto
            balance_after == get_coin_balance(wallet[c], balanceOk)
            purchased_qty == balance_after - o.balance_before
        IN  positions' = save_position(c, o.spot_ask, o.futures_bid, purchased_qty, o.futures_qty,
                                       SpreadPct(o.futures_bid, o.spot_ask), dbOk)
    /\ monitor' = [monitor EXCEPT ![o.crypto] = MonitorStart]
    /\ OpenerEnds(o)
    /\ ev' = NoEvent
    /\ UNCHANGED <<history, blacklist, blacklist_table, scan, buyer, wallet, futShort, telegram, opens>>
    /\ UNCHANGED sideVars

\* ---- monitor_position / monitor_open_position_single (thread Monitor-<crypto>)
\* monitor_position: the thread ends when the position is gone; otherwise it
\* calls monitor_open_position_single, which starts an AdditionalBuys thread
MonStartWithin(c, maxRuns) ==
    /\ monitor[c].pc = "start"
    /\ IF shutdown.event \/ ~has_position(c)
       THEN /\ monitor' = [monitor EXCEPT ![c] = MonitorOff]
            /\ active_threads' = active_threads \ {<<"monitor", c>>}
            /\ UNCHANGED buyer
       ELSE /\ monitor[c].runs < maxRuns
            /\ monitor' = [monitor EXCEPT ![c] =
                              [MonitorStart EXCEPT !.pc = "round", !.runs = monitor[c].runs + 1,
                                                   !.partial_close = monitor[c].partial_close]]
            /\ buyer' = [buyer EXCEPT ![c] = @ (+) SetToBag({BuyerStart})]
            /\ UNCHANGED active_threads
    /\ ev' = NoEvent
    /\ UNCHANGED <<positions, history, blacklist, blacklist_table, scan, opener, wallet, futShort, telegram, opens>>
    /\ UNCHANGED sideVars

\* the Monitor thread in the program as a whole
MonStart(c) == MonStartWithin(c, MaxMonitorRuns)

\* the Monitor thread looked at on its own, over more invocations
MonRestart(c) == MonStartWithin(c, MaxMonitorTaskRuns)

\* a close decision that does not look at the spread
should_close_any_spread(soft_mode_active, funding_rate, current_close_spread) ==
    IF soft_mode_active
    THEN funding_rate <= LOW_FR_TRACKING_THRESHOLD
    ELSE funding_rate < CLOSE_FR_THRESHOLD

\* a close decision that does not look at the soft-close mode
should_close_hard_only(soft_mode_active, funding_rate, current_close_spread) ==
    funding_rate < CLOSE_FR_THRESHOLD /\ current_close_spread <= MAX_CLOSE_SPREAD_PCT

\* should_close of a monitoring round
should_close(soft_mode_active, funding_rate, current_close_spread) ==
    IF soft_mode_active
    THEN funding_rate <= LOW_FR_TRACKING_THRESHOLD /\ current_close_spread <= MAX_CLOSE_SPREAD_PCT
    ELSE funding_rate < CLOSE_FR_THRESHOLD /\ current_close_spread <= MAX_CLOSE_SPREAD_PCT

\* the ledger after the funding step of a round that fetched this rate
FundingStep(c, funding_rate) == SaveRow(c, increment_funding_count(get_by_crypto(c), funding_rate))

\* one round of the while loop up to the close decision: get_position, the
\* funding rate, increment_funding_count, the orderbooks, should_close.
\* increment_funding_count returns False and leaves the row as it is when the
\* database refuses the update (dbOk); the round goes on whatever it returns
MonRound(c) ==
    /\ monitor[c].pc = "round"
    /\ LET m == monitor[c] IN
       \/ /\ m.attempts >= MaxMonitorAttempts \/ ~has_position(c)
          /\ monitor' = [monitor EXCEPT ![c] = [m EXCEPT !.pc = "start"]]
          /\ ev' = NoEvent
          /\ UNCHANGED positions
       \/ /\ m.attempts < MaxMonitorAttempts /\ has_position(c)
          /\ \E ta \in TickerAnswers, sa \in BookAnswers(SpotBooks), fa \in BookAnswers(FuturesBooks),
                dbOk \in BOOLEAN :
               LET funding_rate == get_single_funding_rate(ta)
                   after == IF dbOk THEN FundingStep(c, funding_rate) ELSE positions
                   current_position == to_dict(after[c][1])
                   spot_ob == get_orderbook(sa)
                   fut_ob == get_orderbook(fa)
                   sleeping == [m EXCEPT !.attempts = @ + 1]
                   soft_mode_active == Get(current_position, "consecutive_low_fr", FALSE)
                   books == ~(IsNone(spot_ob) \/ IsNone(fut_ob))
                   spot_bid == IF books THEN Val(spot_ob).bid ELSE 0
                   fut_ask == IF books THEN Val(fut_ob).ask ELSE 0
                   current_close_spread == IF books THEN SpreadPct(fut_ask, spot_bid) ELSE 0
                   closing == books /\ should_close(soft_mode_active, funding_rate, current_close_spread)
               IN  /\ positions' = after
                   /\ monitor' = [monitor EXCEPT ![c] =
                         IF closing
                         THEN [sleeping EXCEPT !.pc = "close", !.funding_rate = funding_rate,
                                  !.soft = soft_mode_active, !.spot_bid = spot_bid, !.fut_ask = fut_ask]
                         ELSE sleeping]
                   /\ ev' = [NoEvent EXCEPT !.crypto = c, !.round =
                                Some([ticker |-> ta, funding_rate |-> funding_rate, books |-> books,
                                      spread |-> current_close_spread, soft |-> soft_mode_active,
                                      close |-> closing])]
    /\ UNCHANGED <<history, blacklist, blacklist_table, active_threads, scan, opener, buyer, wallet, futShort, telegram, opens>>
    /\ UNCHANGED sideVars

\* the monitor's state when a close attempt is over without success: it
\* sleeps MONITOR_INTERVAL_SEC and takes the next round
BackToRounds(m) ==
    [m EXCEPT !.pc = "round", !.funding_rate = 0, !.soft = FALSE, !.spot_bid = 0, !.fut_ask = 0,
              !.balance = 0, !.futures_qty = 0, !.spot_ok = FALSE]


\* both quantities taken from the ledger row
CloseQuantitiesFromLedger(c, balanceOk) ==
    [spot |-> Get(Val(get_position(c)), "spot_qty", 0),
     futures |-> Get(Val(get_position(c)), "futures_qty", 0)]

\* PositionCloser.close_position: the quantities of the two close orders,
\* the spot balance of the wallet and the futures_qty of the position dict
CloseQuantities(c, balanceOk) ==
    [spot |-> get_coin_balance(wallet[c], balanceOk),
     futures |-> Get(Val(get_position(c)), "futures_qty", 0)]

\* the close decision was taken: fresh_position, then PositionCloser.close_position
\* up to close_spot_position_qty with the wallet balance
MonCloseSpot(c) ==
    /\ monitor[c].pc = "close"
    /\ LET m == monitor[c] IN
       IF ~has_position(c)
       THEN /\ monitor' = [monitor EXCEPT ![c] = [BackToRounds(m) EXCEPT !.pc = "start"]]
            /\ ev' = NoEvent
            /\ UNCHANGED wallet
       ELSE \E balanceOk \in BOOLEAN, sa \in BookAnswers(SpotBooks), fa \in BookAnswers(FuturesBooks),
               retCode \in RetCodes :
               LET actual_spot_balance == CloseQuantities(c, balanceOk).spot
                   futures_qty == CloseQuantities(c, balanceOk).futures
               IN  IF \/ actual_spot_balance <= 0
                      \/ futures_qty <= 0
                      \/ IsNone(get_orderbook(sa)) \/ IsNone(get_orderbook(fa))
                   THEN /\ monitor' = [monitor EXCEPT ![c] = BackToRounds(m)]
                        /\ ev' = NoEvent
                        /\ UNCHANGED wallet
                   ELSE /\ monitor' = [monitor EXCEPT ![c] =
                               [m EXCEPT !.pc = "close_futures", !.balance = actual_spot_balance,
                                         !.futures_qty = futures_qty, !.spot_ok = (retCode = 0)]]
                        /\ ev' = OrderEvent("close_spot", c, retCode = 0)
                        /\ wallet' = [wallet EXCEPT ![c] = IF retCode = 0 THEN @ - actual_spot_balance ELSE @]
    /\ UNCHANGED <<positions, history, blacklist, blacklist_table, active_threads, scan, opener, buyer, futShort, telegram, opens>>
    /\ UNCHANGED sideVars

\* the critical log lines of close_position when exactly one leg went through
PartialCloseEvent(e, m, futures_ok) ==
    IF m.spot_ok = futures_ok THEN e
    ELSE [e EXCEPT !.partial = "close", !.log = TRUE,
                   !.exposure = IF m.spot_ok THEN m.futures_qty ELSE m.balance]

\* close_futures_position with the ledger quantity, then the result of
\* close_position: True when both legs were closed
MonCloseFutures(c) ==
    /\ monitor[c].pc = "close_futures"
    /\ \E retCode \in RetCodes :
        LET m == monitor[c]
            futures_ok == (retCode = 0)
        IN  /\ futures_ok => futShort[c] > 0
            /\ futShort' = [futShort EXCEPT ![c] =
                              IF ~futures_ok THEN @ ELSE IF @ > m.futures_qty THEN @ - m.futures_qty ELSE 0]
            /\ ev' = PartialCloseEvent(OrderEvent("close_futures", c, futures_ok), m, futures_ok)
            /\ monitor' = [monitor EXCEPT ![c] =
                              IF m.spot_ok /\ futures_ok
                              THEN [m EXCEPT !.pc = "archive"]
                              ELSE [BackToRounds(m) EXCEPT
                                        !.partial_close = m.partial_close \/ (m.spot_ok # futures_ok)]]
    /\ UNCHANGED <<positions, history, blacklist, blacklist_table, active_threads, scan, opener, buyer, wallet, telegram, opens>>
    /\ UNCHANGED sideVars

\* close_position returned True: close_position_with_pnl (its result is not
\* looked at), the notification, return True; the Monitor thread ends
MonArchive(c) ==
    /\ monitor[c].pc = "archive"
    /\ \E histOk \in BOOLEAN, delOk \in BOOLEAN :
        LET r == close_position_with_pnl(c, monitor[c].spot_bid, monitor[c].fut_ask, histOk, delOk)
        IN  positions' = r.positions /\ history' = r.history
    /\ monitor' = [monitor EXCEPT ![c] = MonitorOff]
    /\ active_threads' = active_threads \ {<<"monitor", c>>}
    /\ ev' = NoEvent
    /\ UNCHANGED <<blacklist, blacklist_table, scan, opener, buyer, wallet, futShort, telegram, opens>>
    /\ UNCHANGED sideVars

\* ---- monitor_additional_buys (thread AdditionalBuys-<crypto>) ----------------
\* one turn of the while loop up to balance_before: the position, the cap on
\* entries, the cooldown, the orderbooks and the spread target
BuyRoundWithin(c, b, maxRounds) ==
    /\ b \in BagToSet(buyer[c]) /\ b.pc = "sleep"
    /\ LET position == get_position(c)
           total_entries == Get(Val(position), "total_entries", 1)
           last_addition_timestamp == Get(Val(position), "last_addition_timestamp", None)
           last_entry_spread == Get(Val(position), "last_entry_spread_pct",
                                    Get(Val(position), "entry_spread_pct", 0))
           waiting == [b EXCEPT !.attempts = @ + 1]
       IN  IF b.attempts >= maxRounds \/ IsNone(position)
           THEN buyer' = [buyer EXCEPT ![c] = Remove(@, b)]
           ELSE IF total_entries > MAX_ADDITIONAL_BUYS
           THEN buyer' = [buyer EXCEPT ![c] = Remove(@, b)]
           ELSE \E cooled \in BOOLEAN, sa \in BookAnswers(SpotBooks), fa \in BookAnswers(FuturesBooks),
                   balanceOk \in BOOLEAN :
                   IF \/ ~IsNone(last_addition_timestamp) /\ ~cooled
                      \/ IsNone(get_orderbook(sa)) \/ IsNone(get_orderbook(fa))
                   THEN buyer' = [buyer EXCEPT ![c] = Replace(@, b, waiting)]
                   ELSE LET spot_ask == Val(get_orderbook(sa)).ask
                            futures_bid == Val(get_orderbook(fa)).bid
                            current_spread == SpreadPct(futures_bid, spot_ask)
                            target_spread == last_entry_spread + ADDITIONAL_BUY_SPREAD_INCREMENT
                        IN  IF current_spread >= target_spread
                            THEN buyer' = [buyer EXCEPT ![c] = Replace(@, b,
                                     [waiting EXCEPT !.pc = "futures", !.spot_ask = spot_ask,
                                         !.futures_bid = futures_bid,
                                         !.balance_before = get_coin_balance(wallet[c], balanceOk)])]
                            ELSE buyer' = [buyer EXCEPT ![c] = Replace(@, b, waiting)]
    /\ ev' = NoEvent
    /\ UNCHANGED <<positions, history, blacklist, blacklist_table, active_threads, scan, opener, monitor,
                   wallet, futShort, telegram, opens>>
    /\ UNCHANGED sideVars

\* the AdditionalBuys thread in the program as a whole
BuyRound(c, b) == BuyRoundWithin(c, b, MaxBuyRounds)
\* the AdditionalBuys thread followed over several turns
BuyRoundAgain(c, b) == BuyRoundWithin(c, b, MaxTopUpRounds)

\* the buyer's state when a turn is over: it sleeps and takes the next turn
BuyerSleeps(b) == [BuyerStart EXCEPT !.attempts = b.attempts]

\* step 1/2 of a top-up: place_futures_order(crypto, "Sell", ...); on failure
\* the turn ends (continue)
BuyFutures(c, b) ==
    /\ b \in BagToSet(buyer[c]) /\ b.pc = "futures"
    /\ \E retCode \in RetCodes :
        /\ ev' = OrderEvent("topup_futures", c, retCode = 0)
        /\ IF retCode = 0
           THEN /\ futShort' = [futShort EXCEPT ![c] = @ + 1]
                /\ buyer' = [buyer EXCEPT ![c] = Replace(@, b, [b EXCEPT !.pc = "spot", !.futures_qty = 1])]
           ELSE /\ buyer' = [buyer EXCEPT ![c] = Replace(@, b, BuyerSleeps(b))]
                /\ UNCHANGED futShort
    /\ UNCHANGED <<positions, history, blacklist, blacklist_table, active_threads, scan, opener, monitor,
                   wallet, telegram, opens>>
    /\ UNCHANGED sideVars

\* the critical log lines of the branch "futures topped up, spot not"
TopUpSpotFailedEvent(c, qty) ==
    [OrderEvent("topup_spot", c, FALSE) EXCEPT !.partial = "topup", !.exposure = qty, !.log = TRUE]

\* step 2/2 of a top-up: place_spot_order(crypto, "Buy", ...)
BuySpot(c, b) ==
    /\ b \in BagToSet(buyer[c]) /\ b.pc = "spot"
    /\ \E retCode \in RetCodes :
        IF retCode = 0
        THEN /\ ev' = OrderEvent("topup_spot", c, TRUE)
             /\ wallet' = [wallet EXCEPT ![c] = @ + 1]
             /\ buyer' = [buyer EXCEPT ![c] = Replace(@, b, [b EXCEPT !.pc = "record"])]
        ELSE /\ ev' = TopUpSpotFailedEvent(c, b.futures_qty)
             /\ buyer' = [buyer EXCEPT ![c] = Replace(@, b, BuyerSleeps(b))]
             /\ UNCHANGED wallet
    /\ UNCHANGED <<positions, history, blacklist, blacklist_table, active_threads, scan, opener, monitor,
                   futShort, telegram, opens>>
    /\ UNCHANGED sideVars

\* balance_after, then add_to_position (False when the position is gone)
BuyRecord(c, b) ==
    /\ b \in BagToSet(buyer[c]) /\ b.pc = "record"
    /\ \E balanceOk \in BOOLEAN :
        LET balance_after == get_coin_balance(wallet[c], balanceOk)
            purchased_spot_qty == balance_after - b.balance_before
        IN  positions' = IF ~has_position(c) THEN positions
                         ELSE SaveRow(c, add_to_position(get_by_crypto(c), b.spot_ask, b.futures_bid,
                                         purchased_spot_qty, b.futures_qty,
                                         SpreadPct(b.futures_bid, b.spot_ask)))
    /\ buyer' = [buyer EXCEPT ![c] = Replace(@, b, BuyerSleeps(b))]
    /\ ev' = NoEvent
    /\ UNCHANGED <<history, blacklist, blacklist_table, active_threads, scan, opener, monitor, wallet, futShort,
                   telegram, opens>>
    /\ UNCHANGED sideVars

\* ---- the program ---------------------------------------------------------------
Next ==
    \/ RestoreMonitoring
    \/ ScanRead
    \/ ScanLaunch
    \/ \E o \in BagToSet(opener) : OpenIterate(o)
    \/ \E o \in BagToSet(opener) : OpenFutures(o)
    \/ \E o \in BagToSet(opener) : OpenSpot(o)
    \/ \E o \in BagToSet(opener) : OpenSave(o)
    \/ \E c \in Cryptos : MonStart(c)
    \/ \E c \in Cryptos : MonRound(c)
    \/ \E c \in Cryptos : MonCloseSpot(c)
    \/ \E c \in Cryptos : MonCloseFutures(c)
    \/ \E c \in Cryptos : MonArchive(c)
    \/ \E c \in Cryptos : \E b \in BagToSet(buyer[c]) : BuyRound(c, b)
    \/ \E c \in Cryptos : \E b \in BagToSet(buyer[c]) : BuyFutures(c, b)
    \/ \E c \in Cryptos : \E b \in BagToSet(buyer[c]) : BuySpot(c, b)
    \/ \E c \in Cryptos : \E b \in BagToSet(buyer[c]) : BuyRecord(c, b)

\* the program started on an empty database
Spec == Init /\ [][Next]_vars

\* the Monitor and AdditionalBuys threads of the restored positions; while a
\* position is open the scan finds MAX_CONCURRENT_POSITIONS reached
MonitoringNext ==
    \/ RestoreMonitoring
    \/ \E c \in Cryptos : MonStart(c)
    \/ \E c \in Cryptos : MonRound(c)
    \/ \E c \in Cryptos : MonCloseSpot(c)
    \/ \E c \in Cryptos : MonCloseFutures(c)
    \/ \E c \in Cryptos : MonArchive(c)
    \/ \E c \in Cryptos : \E b \in BagToSet(buyer[c]) : BuyRound(c, b)
    \/ \E c \in Cryptos : \E b \in BagToSet(buyer[c]) : BuyFutures(c, b)
    \/ \E c \in Cryptos : \E b \in BagToSet(buyer[c]) : BuySpot(c, b)
    \/ \E c \in Cryptos : \E b \in BagToSet(buyer[c]) : BuyRecord(c, b)

\* the program restarted on a database that holds open positions, up to
\* their archival
SpecRestored == InitRestored /\ [][MonitoringNext]_vars

\* the Monitor threads alone: monitor_position calling
\* monitor_open_position_single again and again; the AdditionalBuys threads it
\* starts are left where they start
MonitorTaskNext ==
    \/ RestoreMonitoring
    \/ \E c \in Cryptos : MonRestart(c)
    \/ \E c \in Cryptos : MonRound(c)
    \/ \E c \in Cryptos : MonCloseSpot(c)
    \/ \E c \in Cryptos : MonCloseFutures(c)
    \/ \E c \in Cryptos : MonArchive(c)

SpecMonitorTask == InitRestored /\ [][MonitorTaskNext]_vars

\* ---- the rate limiter on its own ----------------------------------------------
\* what the trading threads hold, left alone by the steps of the network layer
tradeVars == <<positions, history, blacklist, blacklist_table, active_threads, scan,
               opener, monitor, buyer, wallet, futShort, telegram, opens,
               ledger_call, shutdown>>

\* time passes
Tick ==
    /\ clock < MaxClock
    /\ clock' = clock + 1
    /\ ev' = NoEvent
    /\ UNCHANGED <<tradeVars, request_times, weight_times, call>>

\* some thread calls get_rate_limiter().wait_if_needed(endpoint); the lock
\* makes the calls of concurrent threads follow one another
\* wait_if_needed(endpoint) called on the limiter, within the bounds
CallsLimiter(endpoint) ==
    \E overshoots \in SleepOvershoots :
        LET after == wait_if_needed(Limiter, endpoint, overshoots)
        IN  /\ after.now <= MaxClock
            /\ Len(after.request_times) <= MaxRecords
            /\ clock' = after.now
            /\ request_times' = after.request_times
            /\ weight_times' = after.weight_times

WaitIfNeeded(endpoint) ==
    /\ CallsLimiter(endpoint)
    /\ ev' = NoEvent
    /\ UNCHANGED <<tradeVars, call>>

LimiterNext ==
    \/ Tick
    \/ \E endpoint \in {"/market/tickers", "/order/create"} : WaitIfNeeded(endpoint)

SpecLimiter == Init /\ [][LimiterNext]_vars

\* ---- BybitAPIClient, get_wallet_balance, RealizedFundingCalculator -------------
\* what a request to the exchange may come back with: a body with a retCode
\* other than 10006, requests.exceptions.Timeout, another RequestException
\* (raise_for_status included), HTTP 429, a body with retCode 10006
Responses == {"ok", "timeout", "error", "429", "10006"}
\* the Retry-After header of a 429: none, a number of seconds, an HTTP date
RetryAfterHeaders == {"absent", "seconds", "date"}
\* the seconds a Retry-After header names in the model
RetryAfterSeconds == 1

\* the functions of the program that send HTTP requests, with their endpoints
ApiCalls ==
    {<<"get", "/market/tickers">>, <<"get", "/market/orderbook">>,
     <<"post", "/order/create">>, <<"post", "/position/set-leverage">>,
     <<"balance", "/v5/account/wallet-balance">>, <<"funding", "/execution/list">>}

\* one HTTP request, and whether wait_if_needed was called for it
HttpRequest(url, limited) == [url |-> url, limited |-> limited]

\* the request of a post: the exchange has carried it out when it answers
\* with retCode 0, and may have when the answer did not arrive in time
PostRequest(url, carried_out) == [url |-> url, limited |-> TRUE, carried_out |-> carried_out]

\* a thread calls one of these functions
StartCall ==
    /\ call.op = "none"
    /\ \E f \in ApiCalls : call' = [CallIdle EXCEPT !.op = f[1], !.endpoint = f[2], !.wake = clock]
    /\ ev' = NoEvent
    /\ UNCHANGED <<tradeVars, clock, request_times, weight_times>>

\* int(response.headers.get('Retry-After', 5)): the seconds to sleep, None
\* when int() raises ValueError
RetryAfter(header) ==
    CASE header = "absent" -> Some(5 * TicksPerSecond)
      [] header = "seconds" -> Some(RetryAfterSeconds * TicksPerSecond)
      [] header = "date" -> None

\* the rest of an iteration of the retry loop once the request has been
\* answered: return data, sleep and continue, return {} on the last
\* timeout or error, or the ValueError that no except clause catches
AfterResponse(k, response, header, now) ==
    LET next == [k EXCEPT !.attempt = @ + 1]
        delay == RETRY_DELAY * TicksPerSecond
    IN  CASE response = "ok" -> [next EXCEPT !.result = "data"]
          [] response = "429" ->
                IF IsNone(RetryAfter(header))
                THEN [next EXCEPT !.result = "raised"]
                ELSE [next EXCEPT !.wake = now + Val(RetryAfter(header))]
          [] response = "10006" -> [next EXCEPT !.wake = now + delay]
          [] response \in {"timeout", "error"} ->
                IF k.attempt < MAX_RETRIES - 1
                THEN [next EXCEPT !.wake = now + delay * (k.attempt + 1)]
                ELSE [next EXCEPT !.result = "empty"]

\* BybitAPIClient.get: one iteration of `for attempt in range(MAX_RETRIES)`
GetAttempt ==
    /\ call.op = "get" /\ call.result = "none"
    /\ call.attempt < MAX_RETRIES /\ clock >= call.wake
    /\ CallsLimiter(call.endpoint)
    /\ \E response \in Responses, header \in RetryAfterHeaders :
        LET sent == [call EXCEPT !.requests = Append(@, HttpRequest(call.endpoint, TRUE))]
        IN  call' = AfterResponse(sent, response, header, clock')
    /\ ev' = NoEvent
    /\ UNCHANGED tradeVars

\* BybitAPIClient.post: one iteration; get_corrected_timestamp asks the
\* exchange for its time with a request of its own, and the iteration
\* returns {} when that fails. A body ("ok") whose request was not carried
\* out is one with a retCode other than 0
PostAttempt ==
    /\ call.op = "post" /\ call.result = "none"
    /\ call.attempt < MAX_RETRIES /\ clock >= call.wake
    /\ CallsLimiter(call.endpoint)
    /\ \E timeOk \in BOOLEAN, response \in Responses, header \in RetryAfterHeaders,
          carried_out \in BOOLEAN :
        LET timed == [call EXCEPT !.requests = Append(@, HttpRequest("/v5/market/time", FALSE))]
            sent == [timed EXCEPT !.requests =
                                     Append(@, PostRequest(call.endpoint, carried_out))]
        IN  /\ carried_out => timeOk /\ response \in {"ok", "timeout"}
            /\ call' = IF timeOk
                       THEN AfterResponse(sent, response, header, clock')
                       ELSE [timed EXCEPT !.attempt = @ + 1, !.result = "empty"]
    /\ ev' = NoEvent
    /\ UNCHANGED tradeVars

\* the `return {}` after the loop
RetriesExhausted ==
    /\ call.op \in {"get", "post"} /\ call.result = "none"
    /\ call.attempt = MAX_RETRIES /\ clock >= call.wake
    /\ call' = [call EXCEPT !.result = "empty"]
    /\ ev' = NoEvent
    /\ UNCHANGED <<tradeVars, clock, request_times, weight_times>>

\* get_wallet_balance: get_corrected_timestamp, then requests.get on the
\* balance endpoint whatever the timestamp; neither goes through the limiter
WalletBalance ==
    /\ call.op = "balance" /\ call.result = "none"
    /\ \E ok \in BOOLEAN :
        call' = [call EXCEPT
                    !.attempt = 1,
                    !.requests = <<HttpRequest("/v5/market/time", FALSE),
                                   HttpRequest(call.endpoint, FALSE)>>,
                    !.result = IF ok THEN "data" ELSE "empty"]
    /\ ev' = NoEvent
    /\ UNCHANGED <<tradeVars, clock, request_times, weight_times>>

\* RealizedFundingCalculator._get_signed: get_corrected_timestamp, {} when
\* it fails, else requests.get on the endpoint; no limiter
FundingHistory ==
    /\ call.op = "funding" /\ call.result = "none"
    /\ \E timeOk \in BOOLEAN, ok \in BOOLEAN :
        LET timed == [call EXCEPT !.attempt = 1,
                                  !.requests = <<HttpRequest("/v5/market/time", FALSE)>>]
        IN  call' = IF timeOk
                    THEN [timed EXCEPT !.requests = Append(@, HttpRequest(call.endpoint, FALSE)),
                                       !.result = IF ok THEN "data" ELSE "empty"]
                    ELSE [timed EXCEPT !.result = "empty"]
    /\ ev' = NoEvent
    /\ UNCHANGED <<tradeVars, clock, request_times, weight_times>>

\* the function returns (or the exception leaves it) and the thread goes on
EndCall ==
    /\ call.result # "none"
    /\ call' = CallIdle
    /\ ev' = NoEvent
    /\ UNCHANGED <<tradeVars, clock, request_times, weight_times>>

GatewayNext ==
    \/ Tick
    \/ StartCall
    \/ GetAttempt
    \/ PostAttempt
    \/ RetriesExhausted
    \/ WalletBalance
    \/ FundingHistory
    \/ EndCall

SpecGateway == Init /\ [][GatewayNext]_vars

\* ---- the operator's chat commands (telegram_bot/handlers.py) ------------------
\* error_code=None of a manual entry
NoErrorCode == 0

\* /blacklist add CRYPTO reason: the handler writes to the table through its
\* own BlacklistRepository; the manager's cache is not touched
TelegramBlacklistAdd(c) ==
    /\ telegram
    /\ ~RepoIsBlacklisted(blacklist_table, c)
    /\ \E dbOk \in BOOLEAN :
        blacklist_table' = RepoAddToBlacklist(blacklist_table, c, ManualReason, NoErrorCode, dbOk).table
    /\ ev' = NoEvent
    /\ UNCHANGED <<positions, history, blacklist, active_threads, scan, opener, monitor, buyer,
                   wallet, futShort, telegram, opens>>
    /\ UNCHANGED sideVars

\* /blacklist remove CRYPTO: the row is deleted through the handler's
\* repository; the manager's cache is not touched
TelegramBlacklistRemove(c) ==
    /\ telegram
    /\ RepoIsBlacklisted(blacklist_table, c)
    /\ \E dbOk \in BOOLEAN :
        blacklist_table' = RepoRemoveFromBlacklist(blacklist_table, c, dbOk).table
    /\ ev' = NoEvent
    /\ UNCHANGED <<positions, history, blacklist, active_threads, scan, opener, monitor, buyer,
                   wallet, futShort, telegram, opens>>
    /\ UNCHANGED sideVars

\* BlacklistManager.remove_from_blacklist, the manager's own removal
RemoveFromBlacklist(c) ==
    /\ c \in blacklist
    /\ \E dbOk \in BOOLEAN :
        LET after == remove_from_blacklist(c, dbOk)
        IN  blacklist' = after.cache /\ blacklist_table' = after.table
    /\ ev' = NoEvent
    /\ UNCHANGED <<positions, history, active_threads, scan, opener, monitor, buyer,
                   wallet, futShort, telegram, opens>>
    /\ UNCHANGED sideVars

\* the scan and the Open threads next to the operator
OperatorNext ==
    \/ RestoreMonitoring
    \/ ScanRead
    \/ ScanLaunch
    \/ \E o \in BagToSet(opener) : OpenIterate(o)
    \/ \E o \in BagToSet(opener) : OpenFutures(o)
    \/ \E o \in BagToSet(opener) : OpenSpot(o)
    \/ \E o \in BagToSet(opener) : OpenSave(o)
    \/ \E c \in Cryptos : TelegramBlacklistAdd(c)
    \/ \E c \in Cryptos : TelegramBlacklistRemove(c)
    \/ \E c \in Cryptos : RemoveFromBlacklist(c)

SpecOperator == Init /\ [][OperatorNext]_vars

\* ---- properties ------------------------------------------------------------------
\* the Open threads of a symbol
OpenersOf(c) == {o \in BagToSet(opener) : o.crypto = c}

\* C1: in an open attempt the futures short order is the first order sent,
\* the spot buy is sent only after the futures order was accepted, and after
\* a rejected futures order the attempt is over without a spot order.
C1_FuturesBeforeSpot ==
    ev.order \in OpenOrders =>
        /\ ev.attempt[1].order = "open_futures"
        /\ Len(ev.attempt) <= 2
        /\ Len(ev.attempt) = 2 => ev.attempt[1].ok /\ ev.attempt[2].order = "open_spot"
        /\ ev.order = "open_spot" => futShort[ev.crypto] > 0
        /\ (ev.order = "open_futures" /\ ~ev.ok) => OpenersOf(ev.crypto) = {}

\* a spot buy was just sent, after the accepted futures order of its attempt
C1_Witness == ev.order = "open_spot" /\ Len(ev.attempt) = 2 /\ ev.attempt[1].ok

\* C2: when the futures order was accepted and the spot order is rejected,
\* that step ends the attempt: the Open thread is over, it has started no
\* Monitor thread (monitor_and_execute returned False), it has written
\* nothing to the ledger, and no Position of the symbol exists.
C2_SpotFailureEndsAttempt ==
    [][\A c \in Cryptos :
          (ev'.order = "open_spot" /\ ev'.crypto = c /\ ~ev'.ok) =>
              /\ OpenersOf(c)' = {}
              /\ <<"open", c>> \notin active_threads'
              /\ positions' = positions /\ history' = history
              /\ monitor' = monitor
              /\ ~has_position(c)']_vars

\* the spot buy of an attempt was just rejected, its futures short being open
C2_Witness == ev.order = "open_spot" /\ ~ev.ok /\ ev.attempt[1].ok /\ futShort[ev.crypto] > 0

\* C3: every partial-hedge outcome (one leg executed, the other failed) of
\* an initial open, a top-up or a close sends, the telegram integration
\* being there, a critical notification that carries the symbol and the
\* quantity of the leg left open.
C3_PartialHedgeAlerts ==
    (telegram /\ ev.partial # "none") =>
        /\ ~IsNone(ev.alert)
        /\ Val(ev.alert).crypto = ev.crypto
        /\ Val(ev.alert).qty = ev.exposure

\* C4: once a close attempt of a symbol has ended with exactly one leg
\* closed, the program sends no further close order for that symbol.
C4_NoCloseOrderAfterPartialClose ==
    [][\A c \in Cryptos :
          monitor[c].partial_close => ~(ev'.order \in CloseOrders /\ ev'.crypto = c)]_vars

\* C5: archiving never loses a Position. When a call of
\* close_position_with_pnl removes the Position from the positions table, it
\* has added exactly one ClosedPosition with the Position's entry data to
\* the history; a failed history write leaves the Position in place.
C5_RemovalOnlyWithArchive ==
    [][\A c \in Cryptos :
          (monitor[c].pc = "archive" /\ Len(positions'[c]) < Len(positions[c])) =>
              /\ Len(history'[c]) = Len(history[c]) + 1
              /\ history'[c][Len(history'[c])].spot_entry_price = get_by_crypto(c).spot_entry_price
              /\ history'[c][Len(history'[c])].futures_entry_price = get_by_crypto(c).futures_entry_price]_vars

\* C6: within the life of a position the soft-close latch, once set, stays
\* set after every step that leaves the position open, funding rounds with
\* a rate above LOW_FR_TRACKING_THRESHOLD included.
C6_SoftCloseLatchStaysSet ==
    [][\A c \in Cryptos :
          (has_position(c) /\ get_by_crypto(c).consecutive_low_fr /\ has_position(c)') =>
              get_by_crypto(c).consecutive_low_fr']_vars

\* the positions of the Monitor thread inside a close attempt
ClosingPcs == {"close", "close_futures", "archive"}

\* C7: whatever the funding rate and the mode, after a monitoring round whose
\* close spread is above MAX_CLOSE_SPREAD_PCT the monitor is not closing and
\* has sent no order, and a monitor that is closing decided so on a spread of
\* at most MAX_CLOSE_SPREAD_PCT.
C7_NoCloseAboveMaxSpread ==
    /\ (~IsNone(ev.round) /\ Val(ev.round).books /\ Val(ev.round).spread > MAX_CLOSE_SPREAD_PCT) =>
          /\ ~Val(ev.round).close
          /\ monitor[ev.crypto].pc \notin ClosingPcs
          /\ ev.order = "none"
    /\ \A c \in Cryptos :
          monitor[c].pc \in ClosingPcs =>
              SpreadPct(monitor[c].fut_ask, monitor[c].spot_bid) <= MAX_CLOSE_SPREAD_PCT

\* a round with a funding rate below CLOSE_FR_THRESHOLD and a spread above
\* MAX_CLOSE_SPREAD_PCT has left the monitor sleeping
C7_Witness ==
    /\ ~IsNone(ev.round) /\ Val(ev.round).books
    /\ Val(ev.round).spread > MAX_CLOSE_SPREAD_PCT
    /\ Val(ev.round).funding_rate < CLOSE_FR_THRESHOLD
    /\ monitor[ev.crypto].pc = "round"

\* C8: after a monitoring round that had the funding rate and both
\* orderbooks, the monitor is closing exactly when the close spread is at most
\* MAX_CLOSE_SPREAD_PCT and either the latch of the ledger is off and the rate
\* is below CLOSE_FR_THRESHOLD or the latch is on and the rate is at most
\* LOW_FR_TRACKING_THRESHOLD; otherwise it sleeps, and the round sent no order.
C8_CloseExactlyOnCondition ==
    (~IsNone(ev.round) /\ ~IsNone(Val(ev.round).ticker) /\ Val(ev.round).books) =>
        LET r == Val(ev.round)
            rate == Val(r.ticker)
            latch == get_by_crypto(ev.crypto).consecutive_low_fr
            condition == /\ r.spread <= MAX_CLOSE_SPREAD_PCT
                         /\ \/ ~latch /\ rate < CLOSE_FR_THRESHOLD
                            \/ latch /\ rate <= LOW_FR_TRACKING_THRESHOLD
        IN  /\ r.close <=> condition
            /\ monitor[ev.crypto].pc = IF condition THEN "close" ELSE "round"
            /\ ev.order = "none"

\* a round in soft-close mode has triggered the close on a funding rate that
\* is not below CLOSE_FR_THRESHOLD
C8_Witness ==
    /\ ~IsNone(ev.round) /\ ~IsNone(Val(ev.round).ticker) /\ Val(ev.round).books
    /\ get_by_crypto(ev.crypto).consecutive_low_fr
    /\ Val(Val(ev.round).ticker) >= CLOSE_FR_THRESHOLD
    /\ monitor[ev.crypto].pc = "close"

\* C9: a monitoring round that could not obtain the funding rate or an
\* orderbook leaves low_fr_count and the soft-close latch as they were and
\* triggers no close.
C9_NoDataRoundChangesNothing ==
    [][\A c \in Cryptos :
          (/\ ~IsNone(ev'.round) /\ ev'.crypto = c
           /\ IsNone(Val(ev'.round).ticker) \/ ~Val(ev'.round).books) =>
              /\ get_by_crypto(c).low_fr_count' = get_by_crypto(c).low_fr_count
              /\ get_by_crypto(c).consecutive_low_fr' = get_by_crypto(c).consecutive_low_fr
              /\ ~Val(ev'.round).close]_vars

\* C10: the positions table never holds two rows of one symbol, and no order
\* of an initial entry is sent for a symbol that has an open Position.
C10_OnePositionPerSymbol ==
    /\ \A c \in Cryptos : Len(positions[c]) <= 1
    /\ ev.order \in OpenOrders => ~has_position(ev.crypto)

\* a scan pass is about to decide on a symbol whose opening task is running
\* and has just sent the futures order of the entry
C10_Witness ==
    /\ scan.pc = "launch"
    /\ <<"open", Head(scan.opps)>> \in active_threads
    /\ ev.order = "open_futures" /\ ev.ok /\ ev.crypto = Head(scan.opps)

\* the step in which an Open thread of the symbol reports success:
\* monitor_and_execute has returned True and try_open_position ends
OpenReportsSuccess(c) ==
    /\ \E o \in OpenersOf(c) : o.pc = "save"
    /\ OpenersOf(c)' = {}

\* C11: when an open attempt reports success, exactly one Position of the
\* symbol is in the ledger, with total_entries = 1, and the Monitor thread
\* that is started then finds it.
C11_SuccessLeavesOnePosition ==
    [][\A c \in Cryptos :
          OpenReportsSuccess(c) =>
              /\ monitor'[c].pc = "start"
              /\ Len(positions'[c]) = 1
              /\ get_by_crypto(c)'.total_entries = 1]_vars

\* the step in which monitor_open_position_single returns True
MonitorReportsSuccess(c) == monitor[c].pc = "archive" /\ monitor'[c].pc = "off"

\* C12: when the monitor of a symbol finishes a close with success, the
\* symbol has no open Position any more and exactly one ClosedPosition was
\* added to the history for that close.
C12_SuccessfulCloseIsArchived ==
    [][\A c \in Cryptos :
          MonitorReportsSuccess(c) =>
              /\ ~has_position(c)'
              /\ Len(history'[c]) = Len(history[c]) + 1]_vars

\* C13: after a close attempt of an open position has failed, the monitor's
\* next step is another close attempt: it does not go back to evaluating the
\* close condition and sleeping, and it does not leave the loop.
C13_FailedCloseIsRetried ==
    [][\A c \in Cryptos :
          (/\ ev.order = "close_futures" /\ ev.crypto = c
           /\ monitor[c].pc = "round" /\ has_position(c)
           /\ monitor'[c] # monitor[c]) =>
              monitor'[c].pc = "close"]_vars

\* C14: once monitor_open_position_single has used up its rounds on a position
\* whose close never succeeded, the Monitor thread of the symbol takes no
\* further monitoring round.
C14_MonitoringStopsAfterItsRounds ==
    [][\A c \in Cryptos :
          (monitor[c].pc = "start" /\ monitor[c].runs >= 1 /\ has_position(c)) =>
              monitor'[c].pc # "round"]_vars


\* the calls recorded in the second that ends at the clock's reading
RecentCalls == {i \in 1..Len(weight_times) : clock - weight_times[i][1] < TicksPerSecond}

RECURSIVE WeightOf(_)
\* the weights of these recorded calls, added up
WeightOf(calls) ==
    IF calls = {} THEN 0
    ELSE LET i == CHOOSE k \in calls : TRUE
         IN  weight_times[i][2] + WeightOf(calls \ {i})

\* C15: whatever the order in which threads call wait_if_needed, the calls
\* recorded within the trailing second are at most max_requests_per_second
\* and their weights add up to at most max_weight_per_second
C15_WindowWithinBudgets ==
    /\ Cardinality(RecentCalls) <= max_requests_per_second
    /\ WeightOf(RecentCalls) <= max_weight_per_second


\* C16: every HTTP request a call has sent to the exchange was preceded by
\* a wait_if_needed call made for it, the requests of retries included
C16_EveryRequestIsLimited ==
    \A i \in 1..Len(call.requests) : call.requests[i].limited

\* the HTTP attempts a get or post call has made on its endpoint
HttpAttempts == Len(SelectSeq(call.requests, LAMBDA r : r.url = call.endpoint))

\* C17: a call of get or post makes at most MAX_RETRIES attempts on its
\* endpoint and ends with data or with the empty result, never by raising
C17_BoundedRetriesNoRaise ==
    call.op \in {"get", "post"} =>
        /\ HttpAttempts <= MAX_RETRIES
        /\ call.attempt <= MAX_RETRIES
        /\ call.result \in {"none", "data", "empty"}


\* the step in which an order of an open attempt is answered with a failure
OpenOrderFails(c) == ev'.order \in OpenOrders /\ ev'.crypto = c /\ ~ev'.ok

\* C18: an order of an open attempt that fails with a code of
\* CRITICAL_ERROR_CODES leaves the symbol in the blacklist, cache and table,
\* stored with that code and the reason of the failed leg (one that mentions
\* "Spot error" for the spot leg); a failure with any other code leaves the
\* blacklist as it was
C18_CriticalFailureBlacklists ==
    [][\A c \in Cryptos :
          OpenOrderFails(c) =>
              IF should_blacklist_error(ev'.code)
              THEN /\ c \in blacklist'
                   /\ RepoIsBlacklisted(blacklist_table', c)
                   /\ Val(blacklist_table'[c]).error_code = ev'.code
                   /\ Val(blacklist_table'[c]).reason = LegReason(ev'.order)
                   /\ (ev'.order = "open_spot" =>
                          MentionsSpotError(Val(blacklist_table'[c]).reason))
              ELSE /\ blacklist' = blacklist
                   /\ blacklist_table' = blacklist_table]_vars


\* the symbols in the blacklist: a row of the table or an entry of the cache
Blacklisted == {c \in Cryptos : RepoIsBlacklisted(blacklist_table, c)} \cup blacklist

\* the step in which the scan starts an Open thread for the symbol
OpenThreadStarts(c) ==
    /\ opens' = opens + 1
    /\ CopiesIn(OpenerStart(c), opener') = CopiesIn(OpenerStart(c), opener) + 1

\* C19: while a symbol is in the blacklist the scan starts no opening task
\* for it and no entry order is placed for it, and a step that puts a symbol
\* into the blacklist leaves the positions alone
C19_NoEntryWhileBlacklisted ==
    [][/\ \A c \in Blacklisted :
             /\ ~OpenThreadStarts(c)
             /\ ~(ev'.order \in OpenOrders /\ ev'.crypto = c)
       /\ (Blacklisted' # Blacklisted => positions' = positions)]_vars

\* C20: every symbol the manager's cache reports as blacklisted has a row in
\* the blacklist table
C20_CacheWithinStorage ==
    \A c \in blacklist : RepoIsBlacklisted(blacklist_table, c)

\* ---- the ledger taken alone ---------------------------------------------------
\* MultiPositionManager called directly, over a table that is empty or holds
\* a migrated position whose funding counters are still at zero
MaxFundingRounds == 16
MaxLedgerAdds == 2
\* funding rates around the tracking threshold (0.005 %, 0.01 %, 0.011 %)
LedgerRates == {LOW_FR_TRACKING_THRESHOLD - 5, LOW_FR_TRACKING_THRESHOLD, LOW_FR_TRACKING_THRESHOLD + 1}
\* fill prices and fill quantities; the prices are multiples of 840, so that
\* the weighted means of fills over these quantities are whole numbers
LedgerSpotPrices == {19320, 20160}
LedgerFuturesPrices == {20160, 21000}
LedgerQtys == {1, 2}
\* balance_after - balance_before of a top-up: also zero or negative
LedgerSpotDeltas == {-1, 0} \cup LedgerQtys

\* a migrated position of one fill per leg at these prices
LedgerMigrated == Migrated(NewPosition(20160, 21000, 1, 1, SpreadPct(21000, 20160)))

InitLedger ==
    /\ \/ positions = [c \in Cryptos |-> <<>>]
       \/ positions = [c \in Cryptos |-> <<LedgerMigrated>>]
    /\ wallet = [c \in Cryptos |-> 0]
    /\ futShort = [c \in Cryptos |-> 0]
    /\ history = [c \in Cryptos |-> <<>>]
    /\ blacklist = {}
    /\ blacklist_table = [c \in Cryptos |-> None]
    /\ NetInit
    /\ active_threads = {}
    /\ scan = [ScanIdle EXCEPT !.pc = "init"]
    /\ opener = EmptyBag
    /\ monitor = [c \in Cryptos |-> MonitorOff]
    /\ buyer = [c \in Cryptos |-> EmptyBag]
    /\ telegram = FALSE
    /\ opens = 0
    /\ ledger_call = NoLedgerCall
    /\ shutdown = NotShutDown
    /\ ev = NoEvent

\* what a call on the ledger leaves alone
ledgerFrame == <<history, blacklist, blacklist_table, active_threads, scan, opener, monitor,
                 buyer, wallet, futShort, telegram, opens, ev, netVars, shutdown>>

\* save_position(crypto, ...): True after the update of an existing row and
\* after a successful insert; the funding rounds start anew with a new row
LedgerSave(c) ==
    /\ \E sp \in LedgerSpotPrices, fp \in LedgerFuturesPrices, sq \in LedgerQtys, fq \in LedgerQtys,
          dbOk \in BOOLEAN :
          /\ positions' = save_position(c, sp, fp, sq, fq, SpreadPct(fp, sp), dbOk)
          /\ ledger_call' =
                [op |-> "save_position", crypto |-> c,
                 args |-> <<sp, fp, sq, fq, SpreadPct(fp, sp)>>,
                 result |-> has_position(c) \/ dbOk,
                 rounds |-> IF has_position(c) THEN ledger_call.rounds ELSE 0,
                 low_run |-> IF has_position(c) THEN ledger_call.low_run ELSE 0]
    /\ UNCHANGED ledgerFrame

\* increment_funding_count(crypto, current_fr) on an open position
LedgerFunding(c) ==
    /\ has_position(c)
    /\ ledger_call.rounds < MaxFundingRounds
    /\ \E fr \in LedgerRates :
          /\ positions' = FundingStep(c, fr)
          /\ ledger_call' =
                [op |-> "increment_funding_count", crypto |-> c, args |-> <<fr>>,
                 result |-> TRUE,
                 rounds |-> ledger_call.rounds + 1,
                 low_run |-> IF fr <= LOW_FR_TRACKING_THRESHOLD
                             THEN ledger_call.low_run + 1 ELSE 0]
    /\ UNCHANGED ledgerFrame

\* add_to_position(crypto, ...) on an open position
LedgerAdd(c) ==
    /\ has_position(c)
    /\ get_by_crypto(c).total_entries <= MaxLedgerAdds
    /\ \E sp \in LedgerSpotPrices, fp \in LedgerFuturesPrices, sq \in LedgerSpotDeltas,
          fq \in LedgerQtys :
          /\ positions' = SaveRow(c, add_to_position(get_by_crypto(c), sp, fp, sq, fq,
                                                     SpreadPct(fp, sp)))
          /\ ledger_call' =
                [ledger_call EXCEPT
                    !.op = "add_to_position", !.crypto = c,
                    !.args = <<sp, fp, sq, fq, SpreadPct(fp, sp)>>,
                    !.result = ~AddToPositionFails(get_by_crypto(c), sq, fq)]
    /\ UNCHANGED ledgerFrame

\* the ledger under creations and funding rounds
LedgerFundingNext == \E c \in Cryptos : LedgerSave(c) \/ LedgerFunding(c)
SpecLedgerFunding == InitLedger /\ [][LedgerFundingNext]_vars

\* the ledger under creations and entries
LedgerEntriesNext == \E c \in Cryptos : LedgerSave(c) \/ LedgerAdd(c)
SpecLedgerEntries == InitLedger /\ [][LedgerEntriesNext]_vars

\* the open position of the symbol in the state after the step
RowAfter(c) == positions'[c][1]

\* every funding round since the creation was a low one
AllRoundsLow == ledger_call.rounds = ledger_call.low_run

StrictlyBetween(x, a, b) == (a < x /\ x < b) \/ (b < x /\ x < a)

\* what the averaging of one leg has to give: the weighted mean of the old
\* average and the fill (in whole price units, the fraction dropped),
\* strictly between the two for a positive fill quantity, the old average
\* for a fill quantity of zero
LegAveraged(old_avg, old_qty, new_price, new_qty, new_avg) ==
    /\ new_avg * (old_qty + new_qty) <= old_avg * old_qty + new_price * new_qty
    /\ old_avg * old_qty + new_price * new_qty < (new_avg + 1) * (old_qty + new_qty)
    /\ (new_qty > 0 /\ old_avg # new_price) => StrictlyBetween(new_avg, old_avg, new_price)
    /\ new_qty = 0 => new_avg = old_avg

\* C22: a successful add_to_position sets the average entry price of each leg
\* to (old_avg*old_qty + new_price*new_qty)/(old_qty + new_qty), adds the new
\* quantities to the totals, increments total_entries by one and updates
\* last_entry_spread_pct and last_addition_timestamp; the new average lies
\* strictly between the old average and the fill price when they differ and
\* the new quantity is positive, and equals the old average when it is zero
C22_AddAveragesEachLeg ==
    [][\A c \in Cryptos :
        (ledger_call'.op = "add_to_position" /\ ledger_call'.crypto = c /\ ledger_call'.result) =>
            LET old == get_by_crypto(c)
                new == RowAfter(c)
                a == ledger_call'.args
            IN  /\ new.spot_qty = old.spot_qty + a[3]
                /\ new.futures_qty = old.futures_qty + a[4]
                /\ new.total_entries = old.total_entries + 1
                /\ new.last_entry_spread_pct = Some(a[5])
                /\ ~IsNone(new.last_addition_timestamp)
                /\ LegAveraged(Val(old.average_spot_entry_price), old.spot_qty, a[1], a[3],
                               Val(new.average_spot_entry_price))
                /\ LegAveraged(Val(old.average_futures_entry_price), old.futures_qty, a[2], a[4],
                               Val(new.average_futures_entry_price))]_vars
C22_Witness ==
    \E c \in Cryptos :
        /\ ledger_call.op = "add_to_position" /\ ledger_call.crypto = c /\ ledger_call.result
        /\ ledger_call.args[3] > 0
        /\ get_by_crypto(c).total_entries = 3
        /\ Val(get_by_crypto(c).average_spot_entry_price) \notin LedgerSpotPrices
        /\ Val(get_by_crypto(c).average_futures_entry_price) \notin LedgerFuturesPrices

\* C23: whenever a position is open, right after the first entry included,
\* both average entry prices are known (not NULL) and are the quantity-
\* weighted mean of the fills of the leg: with one entry, the entry price
C23_AveragesKnownWhileOpen ==
    \A c \in Cryptos :
        has_position(c) =>
            LET row == get_by_crypto(c)
            IN  /\ ~IsNone(row.average_spot_entry_price)
                /\ ~IsNone(row.average_futures_entry_price)
                /\ row.total_entries = 1 =>
                      /\ Val(row.average_spot_entry_price) = row.spot_entry_price
                      /\ Val(row.average_futures_entry_price) = row.futures_entry_price

\* C24: every open position has spot_qty > 0 and futures_qty > 0, right
\* after its creation and after every top-up, whatever the wallet-balance
\* queries behind the purchased spot quantity returned
C24_OpenQuantitiesPositive ==
    \A c \in Cryptos :
        has_position(c) =>
            /\ get_by_crypto(c).spot_qty > 0
            /\ get_by_crypto(c).futures_qty > 0

\* C25: save_position for a symbol that already has an open position fails,
\* and the entry prices, the quantities and the entry spread of the existing
\* position stay as they were
C25_CreateOnOpenSymbolFails ==
    [][\A c \in Cryptos :
        (ledger_call'.op = "save_position" /\ ledger_call'.crypto = c /\ has_position(c)) =>
            /\ ~ledger_call'.result
            /\ RowAfter(c).spot_entry_price = get_by_crypto(c).spot_entry_price
            /\ RowAfter(c).futures_entry_price = get_by_crypto(c).futures_entry_price
            /\ RowAfter(c).spot_qty = get_by_crypto(c).spot_qty
            /\ RowAfter(c).futures_qty = get_by_crypto(c).futures_qty
            /\ RowAfter(c).entry_spread_pct = get_by_crypto(c).entry_spread_pct]_vars

\* ---- the AdditionalBuys thread over several turns ------------------------------
\* a restored position, its Monitor thread started and left at its first
\* round, and the AdditionalBuys thread it started
TopUpsNext ==
    \/ RestoreMonitoring
    \/ \E c \in Cryptos : MonStart(c)
    \/ \E c \in Cryptos : \E b \in BagToSet(buyer[c]) : BuyRoundAgain(c, b)
    \/ \E c \in Cryptos : \E b \in BagToSet(buyer[c]) : BuyFutures(c, b)
    \/ \E c \in Cryptos : \E b \in BagToSet(buyer[c]) : BuySpot(c, b)
    \/ \E c \in Cryptos : \E b \in BagToSet(buyer[c]) : BuyRecord(c, b)
SpecTopUps == InitRestored /\ [][TopUpsNext]_vars

\* the spread of the last entry as the ledger row holds it
LastEntrySpread(row) ==
    IF IsNone(row.last_entry_spread_pct) THEN row.entry_spread_pct
    ELSE Val(row.last_entry_spread_pct)

\* C26: the orders of a top-up are placed only in a turn in which, on the
\* values the ledger holds then, the spread has grown by the increment over
\* last_entry_spread_pct and total_entries is below the cap; so total_entries
\* never exceeds the cap. (Both comparisons are taken in the wide sense; the
\* cooldown is covered by the 300 s sleep of every turn.)
C26_TopUpOnlyOnLedgerConditions ==
    [][\A c \in Cryptos :
        (ev'.order = "topup_futures" /\ ev'.crypto = c) =>
            /\ has_position(c)
            /\ get_by_crypto(c).total_entries <= MAX_ADDITIONAL_BUYS
            /\ \E b \in BagToSet(buyer[c]) :
                  /\ b.pc = "futures"
                  /\ SpreadPct(b.futures_bid, b.spot_ask) >=
                        LastEntrySpread(get_by_crypto(c)) + ADDITIONAL_BUY_SPREAD_INCREMENT]_vars

\* C27: no top-up order is placed for a position whose soft-close latch is set
C27_NoTopUpInSoftClose ==
    [][\A c \in Cryptos :
        (ev'.order \in TopUpOrders /\ ev'.crypto = c /\ has_position(c)) =>
            ~get_by_crypto(c).consecutive_low_fr]_vars

Min(a, b) == IF a <= b THEN a ELSE b

\* C29: in every close attempt the quantity of the spot sell is the wallet
\* balance queried by the attempt, and the quantity of the futures close is
\* the futures_qty the ledger held for the symbol when the attempt read it
C29_CloseQuantitiesFromWalletAndLedger ==
    [][\A c \in Cryptos :
        /\ (ev'.order = "close_spot" /\ ev'.crypto = c) =>
              /\ has_position(c)
              /\ monitor'[c].balance = wallet[c]
              /\ monitor'[c].futures_qty = get_by_crypto(c).futures_qty
              /\ ev'.ok => wallet[c] - wallet'[c] = wallet[c]
        /\ (ev'.order = "close_futures" /\ ev'.crypto = c /\ ev'.ok) =>
              futShort[c] - futShort'[c] = Min(monitor[c].futures_qty, futShort[c])]_vars
\* a spot sell of a balance that differs from the spot_qty of the ledger
C29_Witness ==
    \E c \in Cryptos :
        /\ ev.order = "close_spot" /\ ev.crypto = c /\ ev.ok
        /\ has_position(c)
        /\ monitor[c].pc = "close_futures"
        /\ monitor[c].balance # get_by_crypto(c).spot_qty
        /\ monitor[c].futures_qty = get_by_crypto(c).futures_qty
        /\ wallet[c] = 0

\* ---- shutdown ------------------------------------------------------------------
\* shutdown(), called by run() on KeyboardInterrupt: shutdown_event.set(), the
\* telegram bot stopped, then the wait for active_threads; the main loop ends
Shutdown ==
    /\ scan.pc # "init"
    /\ shutdown.pc = "off"
    /\ shutdown' = [event |-> TRUE, pc |-> "waiting", waited |-> 0]
    /\ scan' = ScanIdle
    /\ ev' = NoEvent
    /\ UNCHANGED <<positions, history, blacklist, blacklist_table, active_threads, opener,
                   monitor, buyer, wallet, futShort, telegram, opens, ledger_call, netVars>>

\* one turn of the waiting loop of shutdown(): with no active thread, or when
\* the turns are used up, "all threads finished" is logged; otherwise sleep(1)
ShutdownWait ==
    /\ shutdown.pc = "waiting"
    /\ shutdown' = IF active_threads = {} \/ shutdown.waited >= MaxShutdownWaits
                   THEN [shutdown EXCEPT !.pc = "done"]
                   ELSE [shutdown EXCEPT !.waited = @ + 1]
    /\ ev' = NoEvent
    /\ UNCHANGED <<positions, history, blacklist, blacklist_table, active_threads, scan, opener,
                   monitor, buyer, wallet, futShort, telegram, opens, ledger_call, netVars>>

\* the scan, the Open threads and the Monitor threads of a run that is shut
\* down; the AdditionalBuys threads are left where they start
ShutdownNext ==
    \/ RestoreMonitoring
    \/ ScanRead
    \/ ScanLaunch
    \/ \E o \in BagToSet(opener) : OpenIterate(o)
    \/ \E o \in BagToSet(opener) : OpenFutures(o)
    \/ \E o \in BagToSet(opener) : OpenSpot(o)
    \/ \E o \in BagToSet(opener) : OpenSave(o)
    \/ \E c \in Cryptos : MonStart(c)
    \/ \E c \in Cryptos : MonRound(c)
    \/ \E c \in Cryptos : MonCloseSpot(c)
    \/ \E c \in Cryptos : MonCloseFutures(c)
    \/ \E c \in Cryptos : MonArchive(c)
    \/ Shutdown
    \/ ShutdownWait
SpecShutdown == (Init \/ InitRestored) /\ [][ShutdownNext]_vars

\* C30: once the shutdown signal is set, a monitoring task - restored or
\* started for a position opened in this run - takes no further round (it
\* stops at its next sleep or loop boundary), and shutdown() does not report
\* all threads finished before the wait is used up while one is inside
\* monitor_open_position_single
C30_ShutdownStopsAndAwaitsMonitors ==
    [][\A c \in Cryptos :
        /\ shutdown.event => ~(ev'.crypto = c /\ ~IsNone(ev'.round))
        /\ (shutdown'.pc = "done" /\ shutdown'.waited < MaxShutdownWaits) =>
              monitor'[c].pc \in {"off", "start"}]_vars

\* the last n calls on record were all recorded at the reading t of the clock
LastCallsAt(t, n) ==
    /\ Len(request_times) >= n
    /\ \A i \in (Len(request_times) - n + 1)..Len(request_times) : request_times[i] = t

\* C31: in a burst of N calls of wait_if_needed that exceeds the request
\* budget, the Nth call returns no earlier than N / budget seconds after the
\* first. Here N is one more than the budget: as many calls as the budget
\* were recorded at this very instant, and one more call is made
C31_BurstCallWaitsItsShare ==
    [][(LastCallsAt(clock, max_requests_per_second) /\ request_times' # request_times) =>
          (clock' - clock) * max_requests_per_second >=
              (max_requests_per_second + 1) * TicksPerSecond]_vars


\* ---------------------------------------------------------------------------
\* The profit and loss calculator alone
\* ---------------------------------------------------------------------------

\* config.COMMISSION_PCT (0.27 %), in 0.01 %
COMMISSION_PCT == 27

\* entry and exit prices and quantities handed to calculate_pnl
PnlEntryPrices == {19320, 20160}
PnlExitPrices == {19320, 20160, 21000}
PnlQtys == {1, 2}

\* PnLCalculator.calculate_pnl: the commission, in 0.0001 USDT, for a
\* commission_rate in 0.0001 (COMMISSION_PCT / 100.0 of the caller); the
\* rounding to four decimals leaves such a value as it is
PnlCommission(spot_entry_price, spot_exit_price, futures_entry_price, futures_exit_price, spot_qty, futures_qty, commission_rate) ==
    LET spot_entry_volume == spot_qty * spot_entry_price
        futures_entry_volume == futures_qty * futures_entry_price
        spot_exit_volume == spot_qty * spot_exit_price
        futures_exit_volume == futures_qty * futures_exit_price
        total_volume == spot_entry_volume + futures_entry_volume +
                        spot_exit_volume + futures_exit_volume
    IN  total_volume * commission_rate

\* the dict calculate_pnl returns (funding left out)
PnlResult(a) ==
    [price |-> calculate_pnl(a.spot_entry_price, a.spot_exit_price, a.futures_entry_price,
                             a.futures_exit_price, a.spot_qty, a.futures_qty),
     commission |-> PnlCommission(a.spot_entry_price, a.spot_exit_price,
                                  a.futures_entry_price, a.futures_exit_price,
                                  a.spot_qty, a.futures_qty, a.commission_rate)]

\* the arguments of one call of calculate_pnl
PnlArguments ==
    [spot_entry_price : PnlEntryPrices, spot_exit_price : PnlExitPrices,
     futures_entry_price : PnlEntryPrices, futures_exit_price : PnlExitPrices,
     spot_qty : PnlQtys, futures_qty : PnlQtys, commission_rate : {COMMISSION_PCT}]

\* a call of calculate_pnl about to be made: args holds its arguments
InitPnl ==
    /\ positions = [c \in Cryptos |-> <<>>]
    /\ wallet = [c \in Cryptos |-> 0]
    /\ futShort = [c \in Cryptos |-> 0]
    /\ history = [c \in Cryptos |-> <<>>]
    /\ blacklist = {}
    /\ blacklist_table = [c \in Cryptos |-> None]
    /\ NetInit
    /\ active_threads = {}
    /\ scan = [ScanIdle EXCEPT !.pc = "init"]
    /\ opener = EmptyBag
    /\ monitor = [c \in Cryptos |-> MonitorOff]
    /\ buyer = [c \in Cryptos |-> EmptyBag]
    /\ telegram = FALSE
    /\ opens = 0
    /\ \E a \in PnlArguments : ledger_call = [NoLedgerCall EXCEPT !.args = <<a>>]
    /\ shutdown = NotShutDown
    /\ ev = NoEvent

\* calculate_pnl(...): args holds the arguments and then the returned dict
CalculatePnl ==
    /\ ledger_call.op = "none"
    /\ ledger_call' = [ledger_call EXCEPT !.op = "calculate_pnl",
                                          !.args = <<@[1], PnlResult(@[1])>>,
                                          !.result = TRUE]
    /\ UNCHANGED <<positions, ledgerFrame>>

SpecPnl == InitPnl /\ [][CalculatePnl]_vars

\* C32: the commission calculate_pnl computes is average_position_notional * 2
\* * commission_rate, the average position notional being half the sum of the
\* two entry notionals: the exit prices have no part in it
C32_CommissionFromEntryNotional ==
    ledger_call.op = "calculate_pnl" =>
        LET a == ledger_call.args[1]
            twice_average_position_notional ==
                a.spot_qty * a.spot_entry_price + a.futures_qty * a.futures_entry_price
        IN  ledger_call.args[2].commission = twice_average_position_notional * a.commission_rate


\* ---------------------------------------------------------------------------
\* The arbitrage calculator alone
\* ---------------------------------------------------------------------------

\* config.MIN_PROFIT_PCT (-0.2 %), in 0.01 %
MIN_PROFIT_PCT == -20

\* symbols, spreads (0.01 %), funding rates (0.001 %) and limits of one call
TopCryptos == {"BTC", "ETH", "SOL"}
TopSpreads == {4, 100}
TopRates == {MIN_FUNDING_RATE - 10, MIN_FUNDING_RATE, MIN_FUNDING_RATE + 10}
TopLimits == 1..3

\* calculate_profit_from_pair: the net profit in 0.001 %; the rounding to six
\* decimals leaves such a value as it is
calculate_profit_from_pair(pair, funding_rate) ==
    [crypto |-> pair.crypto, spread_pct |-> pair.spread_pct, funding_rate |-> funding_rate,
     net_profit_pct |-> pair.spread_pct * 10 + funding_rate - COMMISSION_PCT * 10]

\* the loop of find_top_opportunities over filtered_pairs
RECURSIVE ProfitableOf(_, _)
ProfitableOf(filtered_pairs, funding_rates) ==
    IF filtered_pairs = <<>> THEN <<>>
    ELSE LET pair == Head(filtered_pairs)
             rest == ProfitableOf(Tail(filtered_pairs), funding_rates)
         IN  IF pair.crypto \notin DOMAIN funding_rates THEN rest
             ELSE IF funding_rates[pair.crypto] < MIN_FUNDING_RATE THEN rest
             ELSE LET result == calculate_profit_from_pair(pair, funding_rates[pair.crypto])
                  IN  IF result.net_profit_pct >= MIN_PROFIT_PCT * 10
                      THEN <<result>> \o rest ELSE rest

\* list.sort(key=net_profit_pct, reverse=True): stable, equal keys keep their order
RECURSIVE SortByProfit(_)
SortByProfit(opportunities) ==
    IF opportunities = <<>> THEN <<>>
    ELSE LET n == Len(opportunities)
             x == opportunities[n]
             sorted == SortByProfit(SubSeq(opportunities, 1, n - 1))
             k == Cardinality({i \in 1..Len(sorted) :
                                  sorted[i].net_profit_pct >= x.net_profit_pct})
         IN  SubSeq(sorted, 1, k) \o <<x>> \o SubSeq(sorted, k + 1, Len(sorted))

\* find_top_opportunities with the sort left out
find_top_opportunities_unsorted(filtered_pairs, funding_rates, limit) ==
    LET opportunities == ProfitableOf(filtered_pairs, funding_rates)
    IN  SubSeq(opportunities, 1, Min(limit, Len(opportunities)))

\* ArbitrageCalculator.find_top_opportunities
find_top_opportunities(filtered_pairs, funding_rates, limit) ==
    LET opportunities == SortByProfit(ProfitableOf(filtered_pairs, funding_rates))
    IN  SubSeq(opportunities, 1, Min(limit, Len(opportunities)))

\* the pairs the spread filter hands over: each symbol at most once
TopPairLists ==
    UNION {{[i \in 1..Len(s) |-> [crypto |-> s[i], spread_pct |-> sp[i]]] :
               sp \in [1..Len(s) -> TopSpreads]} : s \in SeqsUpTo(TopCryptos, 3)}

\* the funding rates fetched: a dict over some of the symbols
TopRateDicts == UNION {[D -> TopRates] : D \in SUBSET TopCryptos}

\* a scan about to call find_top_opportunities
InitTop ==
    /\ positions = [c \in Cryptos |-> <<>>]
    /\ wallet = [c \in Cryptos |-> 0]
    /\ futShort = [c \in Cryptos |-> 0]
    /\ history = [c \in Cryptos |-> <<>>]
    /\ blacklist = {}
    /\ blacklist_table = [c \in Cryptos |-> None]
    /\ NetInit
    /\ active_threads = {}
    /\ \E fp \in TopPairLists, fr \in TopRateDicts, limit \in TopLimits :
          scan = [pc |-> "find_top", opps |-> <<>>, open_count |-> 0,
                  filtered_pairs |-> fp, funding_rates |-> fr, limit |-> limit]
    /\ opener = EmptyBag
    /\ monitor = [c \in Cryptos |-> MonitorOff]
    /\ buyer = [c \in Cryptos |-> EmptyBag]
    /\ telegram = FALSE
    /\ opens = 0
    /\ ledger_call = NoLedgerCall
    /\ shutdown = NotShutDown
    /\ ev = NoEvent

\* opportunities = find_top_opportunities(filtered_pairs, funding_rates, limit)
FindTop ==
    /\ scan.pc = "find_top"
    /\ scan' = [scan EXCEPT !.pc = "found",
                            !.opps = find_top_opportunities(scan.filtered_pairs,
                                                            scan.funding_rates, scan.limit)]
    /\ UNCHANGED <<positions, history, blacklist, blacklist_table, active_threads, opener,
                   monitor, buyer, wallet, futShort, telegram, opens, ev, sideVars>>

SpecTop == InitTop /\ [][FindTop]_vars

\* the pair qualifies: its symbol has a funding rate, the rate and the net
\* profit reach their minimums
Qualifies(pair, funding_rates) ==
    /\ pair.crypto \in DOMAIN funding_rates
    /\ funding_rates[pair.crypto] >= MIN_FUNDING_RATE
    /\ calculate_profit_from_pair(pair, funding_rates[pair.crypto]).net_profit_pct >=
           MIN_PROFIT_PCT * 10

\* C33: find_top_opportunities returns at most limit entries, in the order of
\* non-increasing net profit, each for a symbol of funding_rates whose funding
\* rate is at least MIN_FUNDING_RATE and whose net profit is at least
\* MIN_PROFIT_PCT, and it leaves out no qualifying symbol in favour of one
\* with a lower net profit
C33_TopOpportunities ==
    scan.pc = "found" =>
        LET top == scan.opps
            fp == scan.filtered_pairs
            fr == scan.funding_rates
        IN  /\ Len(top) <= scan.limit
            /\ \A i \in 1..Len(top), j \in 1..Len(top) :
                  i < j => top[i].net_profit_pct >= top[j].net_profit_pct
            /\ \A i \in 1..Len(top) :
                  /\ top[i].crypto \in DOMAIN fr
                  /\ fr[top[i].crypto] >= MIN_FUNDING_RATE
                  /\ top[i].net_profit_pct >= MIN_PROFIT_PCT * 10
                  /\ \E p \in 1..Len(fp) :
                        top[i] = calculate_profit_from_pair(fp[p], fr[top[i].crypto])
            /\ \A p \in 1..Len(fp) :
                  (Qualifies(fp[p], fr) /\ \A i \in 1..Len(top) : top[i].crypto # fp[p].crypto)
                     => /\ Len(top) = scan.limit
                        /\ \A i \in 1..Len(top) :
                              top[i].net_profit_pct >=
                                  calculate_profit_from_pair(fp[p], fr[fp[p].crypto]).net_profit_pct

\* three pairs and a limit of one: a later pair is refused for its funding rate
\* or its net profit, the first qualifies and is cut off by the limit in
\* favour of the remaining one
C33_Witness ==
    /\ scan.pc = "found"
    /\ Len(scan.filtered_pairs) = 3
    /\ scan.limit = 1
    /\ Len(scan.opps) = 1
    /\ scan.opps[1].crypto # scan.filtered_pairs[1].crypto
    /\ Qualifies(scan.filtered_pairs[1], scan.funding_rates)
    /\ \E p \in 2..3 : /\ scan.filtered_pairs[p].crypto \in DOMAIN scan.funding_rates
                       /\ ~Qualifies(scan.filtered_pairs[p], scan.funding_rates)


\* ---------------------------------------------------------------------------
\* Scans and Open threads over two symbols
\* ---------------------------------------------------------------------------

TwoCryptos == {"BTC", "ETH"}

\* the program started on an empty database, the market listing two symbols
InitTwoCryptos ==
    /\ positions = [c \in TwoCryptos |-> <<>>]
    /\ wallet = [c \in TwoCryptos |-> 0]
    /\ futShort = [c \in TwoCryptos |-> 0]
    /\ history = [c \in TwoCryptos |-> <<>>]
    /\ blacklist = {}
    /\ blacklist_table = [c \in TwoCryptos |-> None]
    /\ NetInit
    /\ active_threads = {}
    /\ scan = [ScanIdle EXCEPT !.pc = "init"]
    /\ opener = EmptyBag
    /\ monitor = [c \in TwoCryptos |-> MonitorOff]
    /\ buyer = [c \in TwoCryptos |-> EmptyBag]
    /\ telegram = FALSE
    /\ opens = 0
    /\ ledger_call = NoLedgerCall
    /\ shutdown = NotShutDown
    /\ ev = NoEvent

\* the scans and the Open threads they start
TwoCryptosNext ==
    \/ RestoreMonitoring
    \/ ScanRead
    \/ ScanLaunch
    \/ \E o \in BagToSet(opener) : OpenIterate(o)
    \/ \E o \in BagToSet(opener) : OpenFutures(o)
    \/ \E o \in BagToSet(opener) : OpenSpot(o)
    \/ \E o \in BagToSet(opener) : OpenSave(o)

SpecTwoCryptos == InitTwoCryptos /\ [][TwoCryptosNext]_vars

\* C34: whatever the interleaving of scans, Open threads in flight and closes,
\* the number of open positions never exceeds MAX_CONCURRENT_POSITIONS
C34_OpenPositionsWithinLimit == get_positions_count <= MAX_CONCURRENT_POSITIONS


\* C35: a top-up whose two orders were executed is recorded in the position
\* before a close order for the symbol is submitted, and no top-up order is
\* placed once the close has submitted an order or the position is archived
C35_TopUpsRecordedBeforeClose ==
    [][\A c \in Cryptos :
        /\ (ev'.order \in {"close_spot", "close_futures"} /\ ev'.crypto = c) =>
              \A b \in BagToSet(buyer[c]) : b.pc # "record"
        /\ (ev'.order \in TopUpOrders /\ ev'.crypto = c) =>
              /\ has_position(c)
              /\ monitor[c].pc \notin {"close_futures", "archive"}]_vars


\* C38: at most one additional-buys loop per symbol runs at any time, also
\* after monitor_open_position_single has returned False and is invoked again
C38_OneAdditionalBuysLoop == \A c \in Cryptos : BagCardinality(buyer[c]) <= 1


\* ---- OrderExecutor over the gateway ---------------------------------------------
\* place_spot_order / place_futures_order: one post on /order/create under way or ended
PlacesOrder == call.op = "post" /\ call.endpoint = "/order/create"

\* the orders the exchange has accepted for the call
AcceptedOrders ==
    Len(SelectSeq(call.requests, LAMBDA r : r.url = "/order/create" /\ r.carried_out))

\* response.get('retCode') == 0: the call returns success=True
ReturnsSuccess ==
    /\ call.result = "data"
    /\ call.requests[Len(call.requests)].carried_out

\* C36: one order-placing call of OrderExecutor has at most one order accepted
\* by the exchange, and none when it returns success=False, also when a POST
\* times out after it was sent and the gateway retries it
C36_AtMostOneOrderPerCall ==
    PlacesOrder =>
        /\ AcceptedOrders <= 1
        /\ (call.result \in {"data", "empty"} /\ ~ReturnsSuccess) => AcceptedOrders = 0


\* C37: when the spot sell order of a close attempt has failed, the futures
\* close order of that attempt is not submitted
C37_NoFuturesCloseAfterFailedSpotSell ==
    [][\A c \in Cryptos :
        (ev'.order = "close_futures" /\ ev'.crypto = c) => monitor[c].spot_ok]_vars


\* C39: a monitoring round whose close evaluation finds the soft-close latch
\* set has fetched a funding rate of at most LOW_FR_TRACKING_THRESHOLD, so
\* that its close decision is the one on the close spread alone
C39_SoftRoundHasLowRate ==
    [][\A c \in Cryptos :
        (~IsNone(ev'.round) /\ ev'.crypto = c /\ Val(ev'.round).soft) =>
            /\ Val(ev'.round).funding_rate <= LOW_FR_TRACKING_THRESHOLD
            /\ Val(ev'.round).books =>
                  (Val(ev'.round).close <=> Val(ev'.round).spread <= MAX_CLOSE_SPREAD_PCT)]_vars


\* ---------------------------------------------------------------------------
\* The ledger under its lock: each operation loads the row, changes its copy
\* and saves it, all inside `with self.lock`
\* ---------------------------------------------------------------------------

\* funding rounds applied in one run
MaxLockedRounds == 3

\* the threads that call the ledger and the operations each of them calls
LedgerThreads == {"monitor", "buyer"}
OperationsOf(t) ==
    IF t = "monitor" THEN {"increment_funding_count", "close_position_with_pnl"}
    ELSE {"add_to_position"}

\* a thread outside the ledger
OutsideLedger == [pc |-> "idle", op |-> "none", row |-> <<>>, input |-> <<>>]

\* the lock is not taken at all
LockNotTaken(t) == TRUE

\* `with self.lock` lets the thread in: no other thread is inside such a block
LockAcquired(t) == \A u \in LedgerThreads \ {t} : ledger_call.args[u].pc = "idle"

\* one position open, no thread in the ledger; rounds, adds and added count the
\* operations completed and the quantities they added
InitLedgerLock ==
    /\ positions = [c \in Cryptos |-> <<LedgerMigrated>>]
    /\ wallet = [c \in Cryptos |-> 0]
    /\ futShort = [c \in Cryptos |-> 0]
    /\ history = [c \in Cryptos |-> <<>>]
    /\ blacklist = {}
    /\ blacklist_table = [c \in Cryptos |-> None]
    /\ NetInit
    /\ active_threads = {}
    /\ scan = [ScanIdle EXCEPT !.pc = "init"]
    /\ opener = EmptyBag
    /\ monitor = [c \in Cryptos |-> MonitorOff]
    /\ buyer = [c \in Cryptos |-> EmptyBag]
    /\ telegram = FALSE
    /\ opens = 0
    /\ ledger_call = [op |-> "none", crypto |-> "none",
                      args |-> [t \in LedgerThreads |-> OutsideLedger],
                      result |-> FALSE, rounds |-> 0, low_run |-> 0, adds |-> 0,
                      added |-> [spot_qty |-> 0, futures_qty |-> 0]]
    /\ shutdown = NotShutDown
    /\ ev = NoEvent

\* the arguments of an operation
LockedInputs(op) ==
    CASE op = "increment_funding_count" -> {<<fr>> : fr \in LedgerRates}
      [] op = "add_to_position" -> LedgerSpotPrices \X LedgerFuturesPrices \X LedgerQtys \X LedgerQtys
      [] op = "close_position_with_pnl" -> LedgerSpotPrices \X LedgerFuturesPrices

\* the thread enters `with self.lock` and loads the row (get_by_crypto)
LockedLoad(t, c) ==
    /\ ledger_call.args[t].pc = "idle"
    /\ LockAcquired(t)
    /\ has_position(c)
    /\ \E op \in OperationsOf(t) : \E input \in LockedInputs(op) :
          /\ op = "increment_funding_count" => ledger_call.rounds < MaxLockedRounds
          /\ op = "add_to_position" => ledger_call.adds < MaxLedgerAdds
          /\ ledger_call' = [ledger_call EXCEPT !.args[t] =
                                [pc |-> "loaded", op |-> op, row |-> get_by_crypto(c),
                                 input |-> input]]
    /\ UNCHANGED <<positions, ledgerFrame>>

\* position_repo.save of the copy: session.merge writes every column of it,
\* and inserts the row when the table has none
MergeRow(c, row) == IF has_position(c) THEN SaveRow(c, row) ELSE [positions EXCEPT ![c] = <<row>>]

\* the thread changes its copy, saves it (or archives it and deletes the row)
\* and leaves the block
LockedSave(t, c) ==
    /\ ledger_call.args[t].pc = "loaded"
    /\ LET k == ledger_call.args[t]
           left == [ledger_call EXCEPT !.args[t] = OutsideLedger, !.op = k.op, !.crypto = c]
       IN  CASE k.op = "increment_funding_count" ->
                  /\ positions' = MergeRow(c, increment_funding_count(k.row, k.input[1]))
                  /\ ledger_call' =
                        [left EXCEPT !.result = TRUE, !.rounds = @ + 1,
                                     !.low_run = IF k.input[1] <= LOW_FR_TRACKING_THRESHOLD
                                                 THEN @ + 1 ELSE 0]
                  /\ UNCHANGED history
             [] k.op = "add_to_position" ->
                  /\ positions' =
                        MergeRow(c, add_to_position(k.row, k.input[1], k.input[2], k.input[3],
                                                    k.input[4], SpreadPct(k.input[2], k.input[1])))
                  /\ ledger_call' =
                        [left EXCEPT !.result = TRUE, !.adds = @ + 1,
                                     !.added = [spot_qty |-> @.spot_qty + k.input[3],
                                                futures_qty |-> @.futures_qty + k.input[4]]]
                  /\ UNCHANGED history
             [] k.op = "close_position_with_pnl" ->
                  /\ history' = save_closed_position(c, ClosedRow(k.row, k.input[1], k.input[2]), TRUE)
                  /\ positions' = clear_position(c, TRUE)
                  /\ ledger_call' = [left EXCEPT !.result = TRUE]
    /\ UNCHANGED <<blacklist, blacklist_table, active_threads, scan, opener, monitor,
                   buyer, wallet, futShort, telegram, opens, ev, netVars, shutdown>>

LedgerLockNext == \E t \in LedgerThreads, c \in Cryptos : LockedLoad(t, c) \/ LockedSave(t, c)
SpecLedgerLock == InitLedgerLock /\ [][LedgerLockNext]_vars

\* the row or the archived row carries every completed operation
CarriesCompleted(row) ==
    /\ row.spot_qty = LedgerMigrated.spot_qty + ledger_call.added.spot_qty
    /\ row.futures_qty = LedgerMigrated.futures_qty + ledger_call.added.futures_qty
    /\ row.funding_payments_count = LedgerMigrated.funding_payments_count + ledger_call.rounds

\* C40: the operations of the ledger on one symbol, called from the monitor
\* and the top-up threads, are serialized by the lock: the position, and the
\* archived row after the close, reflect every completed operation in their
\* quantities, total_entries and funding counters
C40_NoLostLedgerUpdate ==
    \A c \in Cryptos :
        /\ has_position(c) =>
              /\ CarriesCompleted(get_by_crypto(c))
              /\ get_by_crypto(c).total_entries = LedgerMigrated.total_entries + ledger_call.adds
              /\ get_by_crypto(c).low_fr_count = ledger_call.low_run
              /\ ~IsNone(get_by_crypto(c).average_spot_entry_price)
        /\ history[c] # <<>> =>
              /\ Len(history[c]) = 1 /\ ~has_position(c)
              /\ CarriesCompleted(history[c][1])

\* funding rounds and top-ups of the two threads were completed and the
\* position was then archived
C40_Witness ==
    \E c \in Cryptos :
        /\ history[c] # <<>>
        /\ ledger_call.op = "close_position_with_pnl"
        /\ ledger_call.adds = MaxLedgerAdds
        /\ ledger_call.rounds >= 2

====
